---- MODULE Spec2Model ----
(***************************************************************************)
(* Model of the skeletal pose and retargeting core of mesh2motion-app:     *)
(* the Transform algebra (Transform.ts), the Pose / Joint snapshot of a    *)
(* live skeleton (Pose.ts, Joint.ts).                                      *)
(*                                                                         *)
(* Numbers.  The program computes with IEEE doubles.  The model computes   *)
(* with exact rationals <<n, d>> (d > 0, lowest terms) and draws every     *)
(* input from small integers and halves, doubles and quarters of them, on  *)
(* which the program's +, -, * and 1/x are exact too, so that a model      *)
(* value is the value the program holds.                                   *)
(*                                                                         *)
(* Objects.  Transform objects live in a heap (transforms), addressed by   *)
(* their index; a Joint holds the addresses of its local and world         *)
(* transforms and a Pose the addresses of its two offsets, so that two     *)
(* poses sharing storage is something the model can express.  Joint lists  *)
(* and bone lists are functions on 0..n-1, as the program indexes them.    *)
(***************************************************************************)
EXTENDS Integers, Sequences, FiniteSets, TLC

VARIABLES
  skel,        \* the live THREE.Skeleton: bones, the armature object above bone 0
  transforms,  \* heap of Transform objects: address -> [rot, pos, scl]
  poses,       \* Pose objects: id -> [srcPose, nameIdx, joints, rootOffset, poseOffset]
  maps,        \* Map objects behind Pose.nameIdx: id -> (name -> index)
  last,        \* the call made by the last step, with what it returned or threw
  nops,        \* number of calls made on poses since construction
  arg,         \* Transform algebra: the three operand transforms A, B, C
  res          \* Transform algebra: the operation applied and its results

poseVars == <<skel, transforms, poses, maps, last, nops>>
algVars == <<arg, res>>
vars == <<skel, transforms, poses, maps, last, nops, arg, res>>

-----------------------------------------------------------------------------
(* JavaScript numbers, as exact rationals *)

RECURSIVE GCD(_, _)
GCD(a, b) == IF b = 0 THEN a ELSE GCD(b, a % b)

Abs(x) == IF x < 0 THEN -x ELSE x

\* the rational n/d in lowest terms with a positive denominator (d # 0)
Rat(n, d) ==
  IF d = 1 THEN <<n, 1>>
  ELSE LET s == IF d < 0 THEN -1 ELSE 1
           g == GCD(Abs(n), Abs(d))
       IN  <<(s * n) \div g, (s * d) \div g>>

Num(n) == <<n, 1>>

\* a + b, a - b, a * b, -a (the integer cases first: they need no reduction)
Add(a, b) ==
  IF a[2] = 1 /\ b[2] = 1 THEN <<a[1] + b[1], 1>>
  ELSE Rat(a[1] * b[2] + b[1] * a[2], a[2] * b[2])
Sub(a, b) ==
  IF a[2] = 1 /\ b[2] = 1 THEN <<a[1] - b[1], 1>>
  ELSE Rat(a[1] * b[2] - b[1] * a[2], a[2] * b[2])
Mul(a, b) ==
  IF a[1] = 0 \/ b[1] = 0 THEN <<0, 1>>
  ELSE Rat(a[1] * b[1], a[2] * b[2])
Neg(a) == <<-a[1], a[2]>>
\* a / b for b # 0
Div(a, b) == Rat(a[1] * b[2], a[2] * b[1])
IsZero(a) == a[1] = 0

-----------------------------------------------------------------------------
(* Vec3 and Quat values: tuples of numbers, components 1..3 and 1..4 for   *)
(* the program's [0]..[2] and [0]..[3] (x, y, z and x, y, z, w)            *)

Vec3(x, y, z) == <<x, y, z>>
Quat(x, y, z, w) == <<x, y, z, w>>

\* new Transform(): identity rotation, zero position, unit scale
NewTransform ==
  [rot |-> Quat(Num(0), Num(0), Num(0), Num(1)),
   pos |-> Vec3(Num(0), Num(0), Num(0)),
   scl |-> Vec3(Num(1), Num(1), Num(1))]

\* qTransform(q, v): v + 2 * (w * (q x v) + q x (q x v))
qTransform(q, v) ==
  LET qx == q[1]  qy == q[2]  qz == q[3]  qw == q[4]
      vx == v[1]  vy == v[2]  vz == v[3]
      x1 == Sub(Mul(qy, vz), Mul(qz, vy))
      y1 == Sub(Mul(qz, vx), Mul(qx, vz))
      z1 == Sub(Mul(qx, vy), Mul(qy, vx))
      x2 == Sub(Add(Mul(qw, x1), Mul(qy, z1)), Mul(qz, y1))
      y2 == Sub(Add(Mul(qw, y1), Mul(qz, x1)), Mul(qx, z1))
      z2 == Sub(Add(Mul(qw, z1), Mul(qx, y1)), Mul(qy, x1))
  IN  Vec3(Add(vx, Mul(Num(2), x2)),
           Add(vy, Mul(Num(2), y2)),
           Add(vz, Mul(Num(2), z2)))

\* qInvert(q): the zero quaternion for a zero q, else conjugate(q) / |q|^2
qInvert(q) ==
  LET a0 == q[1]  a1 == q[2]  a2 == q[3]  a3 == q[4]
      dot == Add(Add(Add(Mul(a0, a0), Mul(a1, a1)), Mul(a2, a2)), Mul(a3, a3))
  IN  IF IsZero(dot)
      THEN Quat(Num(0), Num(0), Num(0), Num(0))
      ELSE LET inverse_dot_product == Div(Num(1), dot)
           IN  Quat(Mul(Neg(a0), inverse_dot_product),
                    Mul(Neg(a1), inverse_dot_product),
                    Mul(Neg(a2), inverse_dot_product),
                    Mul(a3, inverse_dot_product))

\* qMul(a, b): the quaternion product a * b
qMul(a, b) ==
  LET ax == a[1]  ay == a[2]  az == a[3]  aw == a[4]
      bx == b[1]  by == b[2]  bz == b[3]  bw == b[4]
  IN  Quat(Sub(Add(Add(Mul(ax, bw), Mul(aw, bx)), Mul(ay, bz)), Mul(az, by)),
           Sub(Add(Add(Mul(ay, bw), Mul(aw, by)), Mul(az, bx)), Mul(ax, bz)),
           Sub(Add(Add(Mul(az, bw), Mul(aw, bz)), Mul(ax, by)), Mul(ay, bx)),
           Sub(Sub(Sub(Mul(aw, bw), Mul(ax, bx)), Mul(ay, by)), Mul(az, bz)))

\* component-wise product and sum of two Vec3
VMul(a, b) == Vec3(Mul(a[1], b[1]), Mul(a[2], b[2]), Mul(a[3], b[3]))
VAdd(a, b) == Vec3(Add(a[1], b[1]), Add(a[2], b[2]), Add(a[3], b[3]))

-----------------------------------------------------------------------------
(* Transform operations, on values: each gives the receiver's new value    *)

\* this.copy(t)
copy(t) == [rot |-> t.rot, pos |-> t.pos, scl |-> t.scl]

\* this.mul(tran): this is the parent, tran the child
mul(this, tran) ==
  LET p == qTransform(this.rot, VMul(this.scl, tran.pos))
  IN  [pos |-> VAdd(this.pos, p),
       scl |-> VMul(this.scl, tran.scl),
       rot |-> qMul(this.rot, tran.rot)]

\* this.pmul(tran): this is the child, tran the parent
pmul(this, tran) ==
  [pos |-> VAdd(qTransform(tran.rot, VMul(this.pos, tran.scl)), tran.pos),
   scl |-> VMul(this.scl, tran.scl),
   rot |-> qMul(tran.rot, this.rot)]

\* this.fromMul(transform_parent, transform_child)
fromMul(transform_parent, transform_child) ==
  LET v == qTransform(transform_parent.rot,
                      VMul(transform_parent.scl, transform_child.pos))
  IN  [pos |-> VAdd(transform_parent.pos, v),
       scl |-> VMul(transform_parent.scl, transform_child.scl),
       rot |-> qMul(transform_parent.rot, transform_child.rot)]

\* this.fromInvert(t), for t with no zero scale component
fromInvert(t) ==
  LET rot == qInvert(t.rot)
      scl == Vec3(Div(Num(1), t.scl[1]), Div(Num(1), t.scl[2]), Div(Num(1), t.scl[3]))
      pos == Vec3(Mul(Neg(t.pos[1]), scl[1]),
                  Mul(Neg(t.pos[2]), scl[2]),
                  Mul(Neg(t.pos[3]), scl[3]))
  IN  [rot |-> rot, scl |-> scl, pos |-> qTransform(rot, pos)]

-----------------------------------------------------------------------------
(* Input values *)

Half == <<1, 2>>

\* unit quaternions: identity, a half turn about x, a third of a turn about
\* (1,1,1), a third of a turn about (1,-1,1)
QuatVals ==
  { Quat(Num(0), Num(0), Num(0), Num(1)),
    Quat(Num(1), Num(0), Num(0), Num(0)),
    Quat(Half, Half, Half, Half),
    Quat(Half, Neg(Half), Half, Half) }

PosVals == { Vec3(Num(0), Num(0), Num(0)), Vec3(Num(1), Num(2), Num(3)) }

\* scales with no zero component: unit, uniform, non-uniform
SclVals ==
  { Vec3(Num(1), Num(1), Num(1)),
    Vec3(Num(2), Num(2), Num(2)),
    Vec3(Num(2), Num(1), Half) }

TransformVals == [rot : QuatVals, pos : PosVals, scl : SclVals]

Uniform(s) == s[1] = s[2] /\ s[2] = s[3]

-----------------------------------------------------------------------------
(* The live skeleton (THREE.Skeleton): what the Pose is built from and     *)
(* written back to.  THREE keeps a bone's position, quaternion and scale   *)
(* as objects with named components; toArray / fromArray convert between   *)
(* them and the arrays Transform holds.                                    *)

Vector3(x, y, z) == [x |-> x, y |-> y, z |-> z]
Quaternion(x, y, z, w) == [x |-> x, y |-> y, z |-> z, w |-> w]

\* Vector3.toArray, Quaternion.toArray
V3toArray(v) == <<v.x, v.y, v.z>>
QtoArray(q) == <<q.x, q.y, q.z, q.w>>
\* Vector3.fromArray, Quaternion.fromArray
V3fromArray(a) == [x |-> a[1], y |-> a[2], z |-> a[3]]
QfromArray(a) == [x |-> a[1], y |-> a[2], z |-> a[3], w |-> a[4]]

\* b.parent: another bone of the list, an Object3D that is no bone (the
\* armature), or null
Bone(k) == [kind |-> "bone", index |-> k]
Object3D == [kind |-> "object", index |-> -1]
NoParent == [kind |-> "null", index |-> -1]

BoneNames == <<"hips", "spine", "armL", "armR">>

\* parent of each bone, in list order
ShapeTree == <<Object3D, Bone(0), Bone(1), Bone(1)>>
ShapeTwoRoots == <<Object3D, Bone(0), Bone(1), Object3D>>
ShapeChildFirst == <<Object3D, Bone(2), Bone(0), Bone(2)>>
ShapeNoParent == <<NoParent, Bone(0), Bone(1), Bone(1)>>

\* local transform of each bone, in list order, then the armature's world
\* transform
H1 == Quat(Half, Half, Half, Half)
H2 == Quat(Half, Neg(Half), Half, Half)
QId == Quat(Num(0), Num(0), Num(0), Num(1))
P123 == Vec3(Num(1), Num(2), Num(3))
P010 == Vec3(Num(0), Num(1), Num(0))
S111 == Vec3(Num(1), Num(1), Num(1))
S222 == Vec3(Num(2), Num(2), Num(2))
S21h == Vec3(Num(2), Num(1), Half)
TV(r, p, s) == [rot |-> r, pos |-> p, scl |-> s]

PalettePlain ==
  <<TV(QId, P010, S111), TV(QId, P010, S111), TV(QId, P123, S111),
    TV(QId, P123, S111), TV(QId, Vec3(Num(0), Num(0), Num(0)), S111)>>
PaletteUniform ==
  <<TV(H1, P123, S222), TV(H2, P010, S111), TV(QId, P123, S222),
    TV(H1, P010, S111), TV(H2, P010, S222)>>
PaletteSkewed ==
  <<TV(H1, P123, S21h), TV(H2, P010, S111), TV(QId, P123, S21h),
    TV(H1, P010, S222), TV(H2, P010, S21h)>>

MakeSkeleton(shape, palette) ==
  [bones |-> [i \in 0..(Len(shape) - 1) |->
                [name |-> BoneNames[i + 1],
                 parent |-> shape[i + 1],
                 position |-> V3fromArray(palette[i + 1].pos),
                 quaternion |-> QfromArray(palette[i + 1].rot),
                 scale |-> V3fromArray(palette[i + 1].scl)]],
   armature |-> [position |-> V3fromArray(palette[Len(shape) + 1].pos),
                 quaternion |-> QfromArray(palette[Len(shape) + 1].rot),
                 scale |-> V3fromArray(palette[Len(shape) + 1].scl)]]

NumBones(s) == Cardinality(DOMAIN s.bones)

\* the skeletons a pose is constructed from
Skeletons ==
  {MakeSkeleton(ShapeTree, PaletteSkewed), MakeSkeleton(ShapeTree, PalettePlain),
   MakeSkeleton(ShapeTwoRoots, PaletteUniform),
   MakeSkeleton(ShapeChildFirst, PalettePlain),
   MakeSkeleton(ShapeNoParent, PaletteUniform)}

-----------------------------------------------------------------------------
(* Joint and Pose *)

\* null, for Pose.srcPose (pose ids start at 1)
Null == 0

\* f with f[k] = v added or replaced
Ext(f, k, v) == [x \in (DOMAIN f) \cup {k} |-> IF x = k THEN v ELSE f[x]]

\* new Joint().fromBone(b), its local transform at address l and its world
\* transform at address w
JointFromBone(b, l, w) ==
  [name |-> b.name, index |-> -1, pindex |-> -1, isRoot |-> FALSE,
   children |-> <<>>, local |-> l, world |-> w]

\* the value fromBone writes into the joint's local transform
LocalFromBone(b) ==
  [pos |-> V3toArray(b.position),
   rot |-> QtoArray(b.quaternion),
   scl |-> V3toArray(b.scale)]

\* the loop of fromSkeleton from bone i on; st = [threw, h, nameIdx, joints]
RECURSIVE BuildJoints(_, _, _)
BuildJoints(s, i, st) ==
  IF st.threw \/ i >= NumBones(s) THEN st
  ELSE
    LET b == s.bones[i]
        l == Len(st.h) + 1
        w == Len(st.h) + 2
        h1 == st.h \o <<LocalFromBone(b), NewTransform>>
        j == [JointFromBone(b, l, w) EXCEPT !.index = i]
        nameIdx == Ext(st.nameIdx, j.name, j.index)
    IN  IF b.parent.kind = "bone"
        THEN
          LET pname == s.bones[b.parent.index].name
              pindex == IF pname \in DOMAIN nameIdx THEN nameIdx[pname] ELSE j.pindex
          IN  IF pindex \notin DOMAIN st.joints
              THEN \* this.joints[j.pindex] is undefined: TypeError
                   [st EXCEPT !.threw = TRUE]
              ELSE
                LET linked == [st.joints EXCEPT ![pindex].children = Append(@, j.index)]
                IN  BuildJoints(s, i + 1,
                      [threw |-> FALSE, h |-> h1, nameIdx |-> nameIdx,
                       joints |-> Ext(linked, i, [j EXCEPT !.pindex = pindex])])
        ELSE BuildJoints(s, i + 1,
               [threw |-> FALSE, h |-> h1, nameIdx |-> nameIdx,
                joints |-> Ext(st.joints, i, j)])

\* updateWorld from joint i on, in list order, on heap h
RECURSIVE UpdateWorldFrom(_, _, _)
UpdateWorldFrom(pose, i, h) ==
  IF i \notin DOMAIN pose.joints THEN h
  ELSE
    LET j == pose.joints[i]
    IN  IF j.pindex # -1
        THEN UpdateWorldFrom(pose, i + 1,
               [h EXCEPT ![j.world] = fromMul(h[pose.joints[j.pindex].world], h[j.local])])
        ELSE UpdateWorldFrom(pose, i + 1,
               [h EXCEPT ![j.world] =
                  mul(fromMul(h[pose.rootOffset], h[pose.poseOffset]), h[j.local])])

\* a plausible slip in updateWorld: the recompute links the hierarchy again
updateWorldRelink(pose, h) ==
  [h |-> UpdateWorldFrom(pose, 0, h),
   pose |-> [pose EXCEPT !.joints =
               [i \in DOMAIN pose.joints |->
                  IF \E c \in DOMAIN pose.joints : pose.joints[c].pindex = i
                  THEN [pose.joints[i] EXCEPT !.children = Append(@, i + 1)]
                  ELSE pose.joints[i]]]]

\* pose.updateWorld() on heap h: the new heap and the pose itself
updateWorld(pose, h) == [h |-> UpdateWorldFrom(pose, 0, h), pose |-> pose]

\* the end of fromSkeleton, after the loop over the bones left `built`: the
\* pose offset read from the parent of bones[0], then updateWorld
OffsetFromParent(s, h, m, built) ==
  LET failed == [threw |-> TRUE, h |-> h, m |-> m, pose |-> << >>]
  IN  IF built.threw THEN failed
      ELSE IF NumBones(s) = 0 THEN failed          \* skel.bones[0] is undefined
      ELSE IF s.bones[0].parent.kind = "null" THEN failed   \* b.parent is null
      ELSE
        LET v == s.armature
            pose == [srcPose |-> Null, nameIdx |-> Len(m) + 1,
                     joints |-> built.joints,
                     rootOffset |-> Len(h) + 1, poseOffset |-> Len(h) + 2]
        IN  [threw |-> FALSE,
             h |-> updateWorld(pose,
                     [built.h EXCEPT ![Len(h) + 2] =
                        [pos |-> <<v.position.x, v.position.y, v.position.z>>,
                         scl |-> <<v.scale.x, v.scale.y, v.scale.z>>,
                         rot |-> <<v.quaternion.x, v.quaternion.y,
                                   v.quaternion.z, v.quaternion.w>>]]).h,
             m |-> Append(m, built.nameIdx), pose |-> pose]

\* new Pose(skel) on heap h with Map objects m: [threw, h, m, pose]; the
\* pose's rootOffset and poseOffset are the next two addresses of the heap
fromSkeleton(s, h, m) ==
  OffsetFromParent(s, h, m,
    BuildJoints(s, 0, [threw |-> FALSE, h |-> h \o <<NewTransform, NewTransform>>,
                       nameIdx |-> << >>, joints |-> << >>]))

\* getJoint(o) for a number o: this.joints[o], undefined outside the list
HasJoint(pose, o) == o \in DOMAIN pose.joints

\* the walk of getWorld up the hierarchy from joint, accumulating into out
RECURSIVE WalkToRoot(_, _, _, _)
WalkToRoot(pose, h, joint, out) ==
  IF joint.pindex = -1 THEN out
  ELSE WalkToRoot(pose, h, pose.joints[joint.pindex],
                  pmul(out, h[pose.joints[joint.pindex].local]))

\* pose.getWorld(joint_idx, out_transform): [threw, out]
getWorld(pose, h, joint_idx, out_transform) ==
  IF joint_idx = -1
  THEN [threw |-> FALSE, out |-> fromMul(h[pose.rootOffset], h[pose.poseOffset])]
  ELSE IF ~HasJoint(pose, joint_idx)
  THEN \* joint is undefined, not null: joint.local throws a TypeError
       [threw |-> TRUE, out |-> out_transform]
  ELSE
    LET joint == pose.joints[joint_idx]
        up == WalkToRoot(pose, h, joint, copy(h[joint.local]))
    IN  [threw |-> FALSE, out |-> pmul(pmul(up, h[pose.poseOffset]), h[pose.rootOffset])]

\* the srcPose a clone of pose `this` (whose id is `id`) records, were it
\* always the pose cloned from
SrcOfCloneThis(this, id) == id

\* p.srcPose = this.srcPose ?? this
SrcOfClone(this, id) == IF this.srcPose # Null THEN this.srcPose ELSE id

\* a plausible slip in Pose.clone: the joint pushed as it is, not cloned
JointCloneShared(j, l, w) == j

\* j.clone(), its local transform at address l and its world transform at w
JointClone(j, l, w) ==
  [name |-> j.name, index |-> j.index, pindex |-> j.pindex, isRoot |-> j.isRoot,
   children |-> j.children, local |-> l, world |-> w]

\* this.clone() for the pose `this` with id `id`, on heap h: [h, pose]
clone(this, id, h) ==
  LET n == Cardinality(DOMAIN this.joints)
      h0 == h \o <<copy(h[this.rootOffset]), copy(h[this.poseOffset])>>
      base == Len(h0)
      h1 == h0 \o [k \in 1..(2 * n) |->
                     IF k % 2 = 1
                     THEN copy(h[this.joints[(k - 1) \div 2].local])
                     ELSE copy(h[this.joints[(k - 1) \div 2].world])]
  IN  [h |-> h1,
       pose |-> [srcPose |-> SrcOfClone(this, id),
                 nameIdx |-> this.nameIdx,
                 joints |-> [i \in DOMAIN this.joints |->
                               JointClone(this.joints[i],
                                          base + 2 * i + 1, base + 2 * i + 2)],
                 rootOffset |-> Len(h) + 1,
                 poseOffset |-> Len(h) + 2]]

\* a plausible slip in reset: the world transforms copied back, not the locals
resetWorlds(this, ps, h) ==
  IF this.srcPose = Null THEN h
  ELSE [a \in DOMAIN h |->
          IF \E i \in DOMAIN this.joints : this.joints[i].world = a
          THEN copy(h[ps[this.srcPose].joints[
                 CHOOSE i \in DOMAIN this.joints : this.joints[i].world = a].world])
          ELSE h[a]]

\* this.reset() among the poses ps, on heap h: the new heap
reset(this, ps, h) ==
  IF this.srcPose = Null THEN h
  ELSE [a \in DOMAIN h |->
          IF \E i \in DOMAIN this.joints : this.joints[i].local = a
          THEN copy(h[ps[this.srcPose].joints[
                 CHOOSE i \in DOMAIN this.joints : this.joints[i].local = a].local])
          ELSE h[a]]

\* a plausible slip in toSkeleton: the joint's world transform written back
toSkeletonWorld(this, s, h) ==
  [s EXCEPT !.bones =
     [i \in DOMAIN s.bones |->
        [s.bones[i] EXCEPT
           !.position = V3fromArray(h[this.joints[i].world].pos),
           !.quaternion = QfromArray(h[this.joints[i].world].rot),
           !.scale = V3fromArray(h[this.joints[i].world].scl)]]]

\* this.toSkeleton(s) for a skeleton with no more bones than the pose has
\* joints: the skeleton after it
toSkeleton(this, s, h) ==
  [s EXCEPT !.bones =
     [i \in DOMAIN s.bones |->
        [s.bones[i] EXCEPT
           !.position = V3fromArray(h[this.joints[i].local].pos),
           !.quaternion = QfromArray(h[this.joints[i].local].rot),
           !.scale = V3fromArray(h[this.joints[i].local].scl)]]]

\* a plausible slip in setRot: the rotation written to the world transform
setRotWorld(this, h, i, rot) ==
  [h EXCEPT ![this.joints[i].world].rot = <<rot[1], rot[2], rot[3], rot[4]>>]

\* this.setRot(i, rot), this.setPos(i, pos), this.setScl(i, scl),
\* this.setScalar(i, s): the new heap
setRot(this, h, i, rot) ==
  [h EXCEPT ![this.joints[i].local].rot = <<rot[1], rot[2], rot[3], rot[4]>>]
setPos(this, h, i, pos) ==
  [h EXCEPT ![this.joints[i].local].pos = <<pos[1], pos[2], pos[3]>>]
setScl(this, h, i, scl) ==
  [h EXCEPT ![this.joints[i].local].scl = <<scl[1], scl[2], scl[3]>>]
setScalar(this, h, i, sc) ==
  [h EXCEPT ![this.joints[i].local].scl = <<sc, sc, sc>>]

-----------------------------------------------------------------------------
(* Chain operators (AxisAdditive, ChainTwistAdditive) and the Vec3 / Quat  *)
(* operations they use.  Math.sqrt, Math.sin and Math.cos are the real     *)
(* functions, taken where their value is rational: an angle is given by    *)
(* the sine and cosine of its half, and a square root is taken of squares. *)

IsSquare(k) == \E r \in 0..k : r * r = k
ISqrt(k) == CHOOSE r \in 0..k : r * r = k
\* Math.sqrt(a) for a >= 0 whose numerator and denominator are squares
HasSqrt(a) == IsSquare(a[1]) /\ IsSquare(a[2])
Sqrt(a) == <<ISqrt(a[1]), ISqrt(a[2])>>

\* new Vec3().fromSub(a, b)
fromSub(a, b) == Vec3(Sub(a[1], b[1]), Sub(a[2], b[2]), Sub(a[3], b[3]))

LenSqr(v) == Add(Add(Mul(v[1], v[1]), Mul(v[2], v[2])), Mul(v[3], v[3]))

\* v.norm(): unchanged when the magnitude is 0
norm(v) ==
  LET mag == Sqrt(LenSqr(v))
  IN  IF IsZero(mag) THEN v
      ELSE LET inv == Div(Num(1), mag)
           IN  Vec3(Mul(v[1], inv), Mul(v[2], inv), Mul(v[3], inv))

\* new Vec3().fromQuat(quat, vec): vec rotated by quat
fromQuat(quat, vec) == qTransform(quat, vec)

\* an angle in radians: whether it is exactly 0, and sin and cos of its half
Angle(isZero, s, c) == [isZero |-> isZero, s |-> s, c |-> c]
AngleZero == Angle(TRUE, Num(0), Num(1))
AnglePi == Angle(FALSE, Num(1), Num(0))

\* new Quat().fromAxisAngle(axis, rad)
fromAxisAngle(axis, rad) ==
  Quat(Mul(axis[1], rad.s), Mul(axis[2], rad.s), Mul(axis[3], rad.s), rad.c)

\* this.mul(q) on a Quat: this * q
QuatMul(this, q) == qMul(this, q)

\* a plausible slip in Quat.pmulInvert: the inverse multiplied from the right
pmulInvertRight(this, q) == qMul(this, qInvert(q))

\* this.pmulInvert(q) on a Quat: inverse(q) * this, the zero quaternion
\* standing for the inverse of a zero q
pmulInvert(this, q) ==
  LET dot == Add(Add(Add(Mul(q[1], q[1]), Mul(q[2], q[2])), Mul(q[3], q[3])),
                 Mul(q[4], q[4]))
      dot_inv == Div(Num(1), dot)
      ax == IF IsZero(dot) THEN Num(0) ELSE Mul(Neg(q[1]), dot_inv)
      ay == IF IsZero(dot) THEN Num(0) ELSE Mul(Neg(q[2]), dot_inv)
      az == IF IsZero(dot) THEN Num(0) ELSE Mul(Neg(q[3]), dot_inv)
      aw == IF IsZero(dot) THEN Num(0) ELSE Mul(q[4], dot_inv)
      bx == this[1]  by == this[2]  bz == this[3]  bw == this[4]
  IN  Quat(Sub(Add(Add(Mul(ax, bw), Mul(aw, bx)), Mul(ay, bz)), Mul(az, by)),
           Sub(Add(Add(Mul(ay, bw), Mul(aw, by)), Mul(az, bx)), Mul(ax, bz)),
           Sub(Add(Add(Mul(az, bw), Mul(aw, bz)), Mul(ax, by)), Mul(ay, bx)),
           Sub(Sub(Sub(Mul(aw, bw), Mul(ax, bx)), Mul(ay, by)), Mul(az, bz)))

\* a RigItem of the target rig's chain table: a joint of the pose with its
\* parent's index and its twist direction
RigItem(pose, idx) ==
  [idx |-> idx, pidx |-> pose.joints[idx].pindex,
   twist |-> Vec3(Num(0), Num(1), Num(0))]

\* rt.tarRig.chains for a rig over the joints of pose
Chains(pose) ==
  [spine |-> <<RigItem(pose, 0), RigItem(pose, 1)>>,
   armL |-> <<RigItem(pose, 2)>>]

\* a plausible slip in the operators: the rotation about axis applied in the
\* joint's own space, under its world rotation
AdditiveRotLocal(axis, angle, ctran, ptran) ==
  pmulInvert(QuatMul(ctran.rot, fromAxisAngle(axis, angle)), ptran.rot)

\* the local rotation both operators give the first joint of the chain:
\* the rotation about axis, on top of the joint's world rotation, taken
\* back to the space of its parent
AdditiveRot(axis, angle, ctran, ptran) ==
  pmulInvert(QuatMul(fromAxisAngle(axis, angle), ctran.rot), ptran.rot)

\* the world transform of the parent of the chain's first joint
ParentWorld(pose, h, ch) == getWorld(pose, h, ch[1].pidx, NewTransform).out

\* the world transform of the chain's first joint under ptran
ChildWorld(pose, h, ch, ptran) == fromMul(ptran, h[pose.joints[ch[1].idx].local])

\* the twist axis of ChainTwistAdditive.apply before it is normalised: from
\* the chain's first joint to its last
TwistAxis(pose, h, ch, ctran) ==
  fromSub(getWorld(pose, h, ch[Len(ch)].idx, NewTransform).out.pos, ctran.pos)

\* ChainTwistAdditive.apply(rt) with a non-zero angle, rt.pose = pose and
\* chain ch = rt.tarRig.chains[chainName], from the world transforms on:
\* [ok, h], ok when the length of the axis is a number of the model
TwistFromChild(pose, h, ch, angle, ptran, ctran, axis) ==
  [ok |-> HasSqrt(LenSqr(axis)),
   h |-> IF HasSqrt(LenSqr(axis))
         THEN setRot(pose, h, ch[1].idx,
                     AdditiveRot(norm(axis), angle, ctran, ptran))
         ELSE h]
TwistFromParent(pose, h, ch, angle, ptran, ctran) ==
  TwistFromChild(pose, h, ch, angle, ptran, ctran, TwistAxis(pose, h, ch, ctran))
ChainTwistAdditiveApply(pose, h, ch, angle) ==
  TwistFromParent(pose, h, ch, angle, ParentWorld(pose, h, ch),
                  ChildWorld(pose, h, ch, ParentWorld(pose, h, ch)))

\* a plausible slip in AxisAdditive.apply: the rotation written to the cached
\* world transform
AxisFromChildWorld(pose, h, ch, angle, ptran, ctran) ==
  setRotWorld(pose, h, ch[1].idx,
              AdditiveRot(fromQuat(ctran.rot, ch[1].twist), angle, ctran, ptran))

\* AxisAdditive.apply(rt) on axis 'y' with a non-zero angle, rt.pose = pose
\* and chain ch = rt.tarRig.chains[chainName]: the new heap
AxisFromChild(pose, h, ch, angle, ptran, ctran) ==
  setRot(pose, h, ch[1].idx,
         AdditiveRot(fromQuat(ctran.rot, ch[1].twist), angle, ctran, ptran))
AxisAdditiveApply(pose, h, ch, angle) ==
  AxisFromChild(pose, h, ch, angle, ParentWorld(pose, h, ch),
                ChildWorld(pose, h, ch, ParentWorld(pose, h, ch)))

-----------------------------------------------------------------------------
(* The pose specification: a skeleton, the Pose built from it, its clones, *)
(* and the calls made on them                                              *)

MaxOps == 3

SetRotVals == {H1}
SetPosVals == {Vec3(Num(0), Num(0), Num(2))}
SetSclVals == {Vec3(Num(1), Num(2), Num(4))}
SetScalarVals == {Num(2)}

Call(op, p, i, threw, changed, out) ==
  [op |-> op, pose |-> p, joint |-> i, threw |-> threw, changed |-> changed, out |-> out]

NoResult == [op |-> "none", lhs |-> NewTransform, rhs |-> NewTransform]

PoseIds == 1..Len(poses)
Joints(p) == DOMAIN poses[p].joints

Init ==
  /\ skel \in Skeletons
  /\ transforms = << >>
  /\ poses = << >>
  /\ maps = << >>
  /\ last = Call("init", 0, -1, FALSE, FALSE, NewTransform)
  /\ nops = 0
  /\ arg = << >>
  /\ res = NoResult

\* new Pose(skel), r what fromSkeleton gives
Constructed(r) ==
  /\ transforms' = r.h
  /\ maps' = r.m
  /\ poses' = IF r.threw THEN poses ELSE Append(poses, r.pose)
  /\ last' = Call("construct", IF r.threw THEN 0 ELSE 1, -1, r.threw,
                  ~r.threw, NewTransform)
  /\ UNCHANGED <<skel, nops, arg, res>>

Construct ==
  /\ last.op = "init"
  /\ arg = << >>
  /\ Constructed(fromSkeleton(skel, transforms, maps))

Step(op, p, i, h) ==
  /\ nops < MaxOps
  /\ nops' = nops + 1
  /\ transforms' = h
  /\ last' = Call(op, p, i, FALSE, h # transforms, NewTransform)
  /\ UNCHANGED <<skel, poses, maps, arg, res>>

\* p.clone(), r what clone gives
Cloned(p, r) ==
  /\ nops < MaxOps
  /\ nops' = nops + 1
  /\ transforms' = r.h
  /\ poses' = Append(poses, r.pose)
  /\ last' = Call("clone", p, -1, FALSE, TRUE, NewTransform)
  /\ UNCHANGED <<skel, maps, arg, res>>

Clone(p) == Cloned(p, clone(poses[p], p, transforms))

Reset(p) == Step("reset", p, -1, reset(poses[p], poses, transforms))

\* p.toSkeleton(skel), s the skeleton after it
WrittenBack(p, s) ==
  /\ nops < MaxOps
  /\ nops' = nops + 1
  /\ skel' = s
  /\ last' = Call("toSkeleton", p, -1, FALSE, s # skel, NewTransform)
  /\ UNCHANGED <<transforms, poses, maps, arg, res>>

ToSkeleton(p) == WrittenBack(p, toSkeleton(poses[p], skel, transforms))

SetRot(p, i, rot) == Step("setRot", p, i, setRot(poses[p], transforms, i, rot))
SetPos(p, i, pos) == Step("setPos", p, i, setPos(poses[p], transforms, i, pos))
SetScl(p, i, scl) == Step("setScl", p, i, setScl(poses[p], transforms, i, scl))
SetScalar(p, i, sc) == Step("setScalar", p, i, setScalar(poses[p], transforms, i, sc))

\* p.updateWorld(), r what updateWorld gives
WorldUpdated(p, r) ==
  /\ nops < MaxOps
  /\ nops' = nops + 1
  /\ transforms' = r.h
  /\ poses' = [poses EXCEPT ![p] = r.pose]
  /\ last' = Call("updateWorld", p, -1, FALSE, r.h # transforms, NewTransform)
  /\ UNCHANGED <<skel, maps, arg, res>>

UpdateWorld(p) == WorldUpdated(p, updateWorld(poses[p], transforms))

\* pose.getWorld(i), the result in a new Transform; r what getWorld gives
GotWorld(p, i, r) ==
  /\ nops < MaxOps
  /\ nops' = nops + 1
  /\ last' = Call("getWorld", p, i, r.threw, FALSE, r.out)
  /\ UNCHANGED <<skel, transforms, poses, maps, arg, res>>

GetWorld(p, i) == GotWorld(p, i, getWorld(poses[p], transforms, i, NewTransform))

\* a Retargeter as the operators read it: rt.pose the working pose or Null,
\* rt.tarRig the target rig or Null
Retargeter(p, rig) == [pose |-> p, tarRig |-> rig]

\* the rigs there are: the target rig of the constructed pose, with its
\* chain table
TarRig == 1
Rigs == <<[chains |-> Chains(poses[1])]>>

\* what apply gives: whether it threw, whether the rotation it wrote is a
\* number of the model, and the heap after it
Applied(threw, ok, h) == [threw |-> threw, ok |-> ok, h |-> h]

TwistDone(r) == Applied(FALSE, r.ok, r.h)

\* a plausible slip in ChainTwistAdditive.apply: the zero-angle return left out
ChainTwistAdditiveNoZero(rt, ps, h, name, angle) ==
  IF rt.tarRig = Null THEN Applied(FALSE, TRUE, h)
  ELSE IF name \notin DOMAIN Rigs[rt.tarRig].chains THEN Applied(TRUE, TRUE, h)
  ELSE IF rt.pose = Null THEN Applied(FALSE, TRUE, h)
  ELSE TwistDone(ChainTwistAdditiveApply(ps[rt.pose], h,
                                         Rigs[rt.tarRig].chains[name], angle))

\* new ChainTwistAdditive(name, angle).apply(rt)
ChainTwistAdditive(rt, ps, h, name, angle) ==
  IF angle.isZero \/ rt.tarRig = Null THEN Applied(FALSE, TRUE, h)
  ELSE IF name \notin DOMAIN Rigs[rt.tarRig].chains THEN Applied(TRUE, TRUE, h)
  ELSE IF rt.pose = Null THEN Applied(FALSE, TRUE, h)
  ELSE TwistDone(ChainTwistAdditiveApply(ps[rt.pose], h,
                                         Rigs[rt.tarRig].chains[name], angle))

\* new AxisAdditive(name, 'y', angle).apply(rt)
AxisAdditive(rt, ps, h, name, angle) ==
  IF angle.isZero THEN Applied(FALSE, TRUE, h)
  ELSE IF rt.tarRig = Null THEN Applied(TRUE, TRUE, h)
  ELSE IF name \notin DOMAIN Rigs[rt.tarRig].chains THEN Applied(TRUE, TRUE, h)
  ELSE IF rt.pose = Null THEN Applied(TRUE, TRUE, h)
  ELSE Applied(FALSE, TRUE,
               AxisAdditiveApply(ps[rt.pose], h, Rigs[rt.tarRig].chains[name],
                                 angle))

\* the first joint of the chain the operator was given, -1 without one
FirstJoint(rt, name) ==
  IF rt.tarRig = Null THEN -1
  ELSE IF name \notin DOMAIN Rigs[rt.tarRig].chains THEN -1
  ELSE Rigs[rt.tarRig].chains[name][1].idx

\* a call of a chain operator on rt, r what apply gave
ChainApplied(op, rt, name, angle, r) ==
  /\ r.ok
  /\ nops < MaxOps
  /\ nops' = nops + 1
  /\ transforms' = r.h
  /\ last' = [op |-> op, pose |-> rt.pose, joint |-> FirstJoint(rt, name),
              threw |-> r.threw, changed |-> r.h # transforms,
              out |-> NewTransform, chain |-> name, angle |-> angle,
              rig |-> rt.tarRig # Null]
  /\ UNCHANGED <<skel, poses, maps, arg, res>>

TwistApply(rt, name, angle) ==
  ChainApplied("twist", rt, name, angle,
               ChainTwistAdditive(rt, poses, transforms, name, angle))

AxisApply(rt, name, angle) ==
  ChainApplied("axis", rt, name, angle,
               AxisAdditive(rt, poses, transforms, name, angle))

\* the joints the setters are called on, and the indices getWorld is called
\* with: the root sentinel, the last joint, one past the last joint
SetJoints(p) == Joints(p) \cap {1, 3}
TwistChains == {"spine"}
AxisChains == {"armL"}
GetIndices(p) == {-1, Cardinality(Joints(p)) - 1, Cardinality(Joints(p))}

Next ==
  \/ Construct
  \/ \E p \in PoseIds : Clone(p)
  \/ \E p \in PoseIds : Reset(p)
  \/ \E p \in PoseIds : ToSkeleton(p)
  \/ \E p \in PoseIds : UpdateWorld(p)
  \/ \E p \in PoseIds : \E i \in SetJoints(p) : \E rot \in SetRotVals : SetRot(p, i, rot)
  \/ \E p \in PoseIds : \E i \in SetJoints(p) \ {3} : \E pos \in SetPosVals : SetPos(p, i, pos)
  \/ \E p \in PoseIds : \E i \in SetJoints(p) \ {3} : \E scl \in SetSclVals : SetScl(p, i, scl)
  \/ \E p \in PoseIds : \E i \in SetJoints(p) \ {1} : \E sc \in SetScalarVals : SetScalar(p, i, sc)
  \/ \E p \in PoseIds : \E i \in GetIndices(p) : GetWorld(p, i)
  \/ \E p \in PoseIds : \E name \in TwistChains :
       TwistApply(Retargeter(p, TarRig), name, AnglePi)
  \/ \E p \in PoseIds : \E name \in AxisChains :
       AxisApply(Retargeter(p, TarRig), name, AnglePi)

Spec == Init /\ [][Next]_vars

-----------------------------------------------------------------------------
(* The chain operators on every kind of retargeter: with and without a     *)
(* working pose, a target rig and the named chain, at a zero and a         *)
(* non-zero angle                                                          *)

\* the retargeters of a session, which starts with the constructed pose
Retargeters ==
  IF poses = << >> THEN {}
  ELSE {Retargeter(p, rig) : p \in PoseIds \cup {Null}, rig \in {TarRig, Null}}
ChainNames == {"spine", "armL", "tail"}
Angles == {AngleZero, AnglePi}

NextChain ==
  \/ Construct
  \/ \E p \in PoseIds : UpdateWorld(p)
  \/ \E rt \in Retargeters : \E name \in ChainNames : \E angle \in Angles :
       TwistApply(rt, name, angle)
  \/ \E rt \in Retargeters : \E name \in ChainNames : \E angle \in Angles :
       AxisApply(rt, name, angle)

SpecChain == Init /\ [][NextChain]_vars

-----------------------------------------------------------------------------
(* The Transform algebra: three transforms are drawn, and the compositions *)
(* are computed on them.                                                   *)

Identity == NewTransform

InitAlg ==
  /\ arg \in TransformVals \X TransformVals \X TransformVals
  /\ res = NoResult
  /\ skel = MakeSkeleton(ShapeTree, PalettePlain)
  /\ transforms = << >>
  /\ poses = << >>
  /\ maps = << >>
  /\ last = Call("init", 0, -1, FALSE, FALSE, NewTransform)
  /\ nops = 0

\* both groupings of new Transform().fromMul over arg
Compose ==
  /\ res.op = "none"
  /\ res' = [op |-> "fromMul",
             lhs |-> fromMul(fromMul(arg[1], arg[2]), arg[3]),
             rhs |-> fromMul(arg[1], fromMul(arg[2], arg[3]))]
  /\ UNCHANGED <<poseVars, arg>>

\* new Transform().fromInvert(arg[1]), and arg[1] composed with it
Invert ==
  /\ res.op = "none"
  /\ res' = [op |-> "fromInvert",
             lhs |-> fromMul(arg[1], fromInvert(arg[1])),
             rhs |-> fromInvert(arg[1])]
  /\ UNCHANGED <<poseVars, arg>>

NextAlg ==
  \/ Compose
  \/ Invert

SpecAlg == InitAlg /\ [][NextAlg]_vars

-----------------------------------------------------------------------------
(* BoneAutoMapper.  A string is the sequence of its characters, so that    *)
(* the case folding, the substring tests and the regular expressions of    *)
(* the source act on what they act on there.                               *)

UpperCase ==
  <<"A", "B", "C", "D", "E", "F", "G", "H", "I", "J", "K", "L", "M",
    "N", "O", "P", "Q", "R", "S", "T", "U", "V", "W", "X", "Y", "Z">>
LowerCase ==
  <<"a", "b", "c", "d", "e", "f", "g", "h", "i", "j", "k", "l", "m",
    "n", "o", "p", "q", "r", "s", "t", "u", "v", "w", "x", "y", "z">>
Digits == {"0", "1", "2", "3", "4", "5", "6", "7", "8", "9"}

\* s.toLowerCase()
LowerChar(c) ==
  IF \E i \in 1..26 : UpperCase[i] = c
  THEN LowerCase[CHOOSE i \in 1..26 : UpperCase[i] = c]
  ELSE c
toLowerCase(s) == [i \in 1..Len(s) |-> LowerChar(s[i])]

\* s.includes(k), and k as a prefix and as a suffix of s
includes(s, k) == \E i \in 0..(Len(s) - Len(k)) : SubSeq(s, i + 1, i + Len(k)) = k
startsWith(s, k) == Len(k) <= Len(s) /\ SubSeq(s, 1, Len(k)) = k
endsWith(s, k) == Len(k) <= Len(s) /\ SubSeq(s, Len(s) - Len(k) + 1, Len(s)) = k

\* keywords.some(keyword => normalized.includes(keyword))
SomeIncluded(keywords, normalized) ==
  \E k \in DOMAIN keywords : includes(normalized, keywords[k])

\* \w of a regular expression, and \b before position i of s
IsWordChar(c) ==
  \/ c \in Digits
  \/ c = "_"
  \/ \E i \in 1..26 : c = LowerCase[i] \/ c = UpperCase[i]
WordBoundary(s, i) ==
  (i - 1 \in 1..Len(s) /\ IsWordChar(s[i - 1])) # (i \in 1..Len(s) /\ IsWordChar(s[i]))

\* the enums BoneCategory and BoneSide
BoneCategory ==
  [Torso |-> "torso", Arms |-> "arms", Hands |-> "hands", Legs |-> "legs",
   Wings |-> "wings", Tail |-> "tail", Unknown |-> "unknown"]
BoneSide ==
  [Left |-> "left", Right |-> "right", Center |-> "center", Unknown |-> "unknown"]

\* keywords.torso, keywords.arms, keywords.hands, keywords.legs, keywords.wings
\* and keywords.tail of categorize_bone, by the category they stand for
keywords ==
  [torso |->
     <<<<"s", "p", "i", "n", "e">>, <<"c", "h", "e", "s", "t">>, <<"n", "e", "c", "k">>, <<"h", "e", "a", "d">>, <<"h", "i", "p", "s">>, <<"p", "e", "l", "v", "i", "s">>, <<"r", "o", "o", "t">>, <<"c", "o", "g">>, <<"c", "e", "n", "t", "e", "r">>, <<"t", "o", "r", "s", "o">>, <<"b", "a", "c", "k">>, <<"r", "i", "b", "c", "a", "g", "e">>>>,
   arms |->
     <<<<"s", "h", "o", "u", "l", "d", "e", "r">>, <<"a", "r", "m">>, <<"e", "l", "b", "o", "w">>, <<"w", "r", "i", "s", "t">>, <<"c", "l", "a", "v", "i", "c", "l", "e">>, <<"s", "c", "a", "p", "u", "l", "a">>, <<"u", "p", "p", "e", "r", "a", "r", "m">>, <<"f", "o", "r", "e", "a", "r", "m">>>>,
   hands |->
     <<<<"h", "a", "n", "d">>, <<"f", "i", "n", "g", "e", "r">>, <<"t", "h", "u", "m", "b">>, <<"i", "n", "d", "e", "x">>, <<"m", "i", "d", "d", "l", "e">>, <<"r", "i", "n", "g">>, <<"p", "i", "n", "k", "y">>, <<"p", "a", "l", "m">>, <<"k", "n", "u", "c", "k", "l", "e">>, <<"m", "e", "t", "a", "c", "a", "r", "p", "a", "l">>, <<"p", "h", "a", "l", "a", "n", "x">>>>,
   legs |->
     <<<<"l", "e", "g">>, <<"t", "h", "i", "g", "h">>, <<"k", "n", "e", "e">>, <<"a", "n", "k", "l", "e">>, <<"f", "o", "o", "t">>, <<"t", "o", "e">>, <<"h", "e", "e", "l">>, <<"h", "i", "p">>, <<"u", "p", "p", "e", "r", "l", "e", "g">>, <<"l", "o", "w", "e", "r", "l", "e", "g">>, <<"s", "h", "i", "n">>, <<"c", "a", "l", "f">>>>,
   wings |->
     <<<<"w", "i", "n", "g">>, <<"f", "e", "a", "t", "h", "e", "r">>, <<"p", "i", "n", "i", "o", "n">>>>,
   tail |->
     <<<<"t", "a", "i", "l">>>>]

\* a plausible slip in categorize_bone: the hand keywords tested before the
\* arm keywords
CategoryOfHandsFirst(normalized) ==
  IF SomeIncluded(keywords.torso, normalized) THEN BoneCategory.Torso
  ELSE IF SomeIncluded(keywords.hands, normalized) THEN BoneCategory.Hands
  ELSE IF SomeIncluded(keywords.arms, normalized) THEN BoneCategory.Arms
  ELSE IF SomeIncluded(keywords.legs, normalized) THEN BoneCategory.Legs
  ELSE IF SomeIncluded(keywords.wings, normalized) THEN BoneCategory.Wings
  ELSE IF SomeIncluded(keywords.tail, normalized) THEN BoneCategory.Tail
  ELSE BoneCategory.Unknown

\* categorize_bone from the lower-cased name on
CategoryOf(normalized) ==
  IF SomeIncluded(keywords.torso, normalized) THEN BoneCategory.Torso
  ELSE IF SomeIncluded(keywords.arms, normalized) THEN BoneCategory.Arms
  ELSE IF SomeIncluded(keywords.hands, normalized) THEN BoneCategory.Hands
  ELSE IF SomeIncluded(keywords.legs, normalized) THEN BoneCategory.Legs
  ELSE IF SomeIncluded(keywords.wings, normalized) THEN BoneCategory.Wings
  ELSE IF SomeIncluded(keywords.tail, normalized) THEN BoneCategory.Tail
  ELSE BoneCategory.Unknown

categorize_bone(bone_name) == CategoryOf(toLowerCase(bone_name))

\* patterns.some(pattern => new RegExp(pattern).test(normalized)) for
\* patterns <<text, anchor>> that anchor a text at the start (^text) or at
\* the end (text$)
SomePattern(patterns, normalized) ==
  \E k \in DOMAIN patterns :
    IF patterns[k][2] = "^" THEN startsWith(normalized, patterns[k][1])
    ELSE endsWith(normalized, patterns[k][1])

left_patterns ==
  <<<<<<"l", "e", "f", "t">>, "$">>, <<<<"l", "e", "f", "t">>, "^">>, <<<<"l", "_">>, "^">>,
    <<<<"_", "l">>, "$">>>>
right_patterns ==
  <<<<<<"r", "i", "g", "h", "t">>, "$">>, <<<<"r", "i", "g", "h", "t">>, "^">>, <<<<"r", "_">>, "^">>,
    <<<<"_", "r">>, "$">>>>

\* normalized.charAt(normalized.length - 1): the empty string for an empty
\* name
LastChar(normalized) ==
  IF normalized = << >> THEN "" ELSE normalized[Len(normalized)]

\* a plausible slip in determine_bone_side: the last-character fallback
\* tested before the substring test
SideOfLastCharFirst(normalized, category) ==
  IF category = BoneCategory.Torso THEN BoneSide.Center
  ELSE IF SomePattern(left_patterns, normalized) THEN BoneSide.Left
  ELSE IF SomePattern(right_patterns, normalized) THEN BoneSide.Right
  ELSE IF LowerChar(LastChar(normalized)) = "l" THEN BoneSide.Left
  ELSE IF LowerChar(LastChar(normalized)) = "r" THEN BoneSide.Right
  ELSE IF includes(normalized, <<"l", "e", "f", "t">>) THEN BoneSide.Left
  ELSE IF includes(normalized, <<"r", "i", "g", "h", "t">>) THEN BoneSide.Right
  ELSE BoneSide.Unknown

\* determine_bone_side from the lower-cased name on
SideOf(normalized, category) ==
  IF category = BoneCategory.Torso THEN BoneSide.Center
  ELSE IF SomePattern(left_patterns, normalized) THEN BoneSide.Left
  ELSE IF SomePattern(right_patterns, normalized) THEN BoneSide.Right
  ELSE IF includes(normalized, <<"l", "e", "f", "t">>) THEN BoneSide.Left
  ELSE IF includes(normalized, <<"r", "i", "g", "h", "t">>) THEN BoneSide.Right
  ELSE IF LowerChar(LastChar(normalized)) = "l" THEN BoneSide.Left
  ELSE IF LowerChar(LastChar(normalized)) = "r" THEN BoneSide.Right
  ELSE BoneSide.Unknown

determine_bone_side(bone_name, category) ==
  SideOf(toLowerCase(bone_name), category)

\* normalized.replace(/[-.\s]/g, '_')
Separators(s) ==
  [i \in 1..Len(s) |-> IF s[i] \in {"-", ".", " "} THEN "_" ELSE s[i]]

\* normalized.replace(/^(a|b|...)/i, '') on a lower-cased string: the first
\* alternative, in the order written, that the string starts with is removed
RECURSIVE RemovePrefix(_, _, _)
RemovePrefix(s, alternatives, k) ==
  IF k > Len(alternatives) THEN s
  ELSE IF startsWith(s, alternatives[k])
       THEN SubSeq(s, Len(alternatives[k]) + 1, Len(s))
       ELSE RemovePrefix(s, alternatives, k + 1)

common_prefixes ==
  <<<<"m", "i", "x", "a", "m", "o", "r", "i", "g">>, <<"m", "i", "x", "a", "m", "o", "r", "i", "g", "_">>, <<"r", "i", "g", "_">>, <<"b", "o", "n", "e", "_">>, <<"j", "n", "t", "_">>, <<"j", "o", "i", "n", "t", "_">>, <<"d", "e", "f", "_">>>>

\* normalized.replace(/\b(a|b|...)\b/g, replacement): scanning from the
\* left, the first alternative that stands at the position between two word
\* boundaries is replaced, and the scan goes on after it
WordAt(s, i, w) ==
  /\ i + Len(w) - 1 <= Len(s)
  /\ SubSeq(s, i, i + Len(w) - 1) = w
  /\ WordBoundary(s, i)
  /\ WordBoundary(s, i + Len(w))
RECURSIVE MatchLen(_, _, _, _)
MatchLen(s, i, words, k) ==
  IF k > Len(words) THEN 0
  ELSE IF WordAt(s, i, words[k]) THEN Len(words[k])
  ELSE MatchLen(s, i, words, k + 1)
RECURSIVE ReplaceFrom(_, _, _, _)
ReplaceFrom(s, i, words, replacement) ==
  IF i > Len(s) THEN << >>
  ELSE LET n == MatchLen(s, i, words, 1)
       IN IF n = 0 THEN <<s[i]>> \o ReplaceFrom(s, i + 1, words, replacement)
          ELSE replacement \o ReplaceFrom(s, i + n, words, replacement)

\* normalized.replace(/^(l|r)_/g, ''), .replace(/_(l|r)$/g, '') and
\* .replace(/\.(l|r)$/g, '')
RemoveSidePrefix(s) ==
  IF startsWith(s, <<"l", "_">>) \/ startsWith(s, <<"r", "_">>) THEN SubSeq(s, 3, Len(s)) ELSE s
RemoveSideSuffix(s, sep) ==
  IF endsWith(s, <<sep, "l">>) \/ endsWith(s, <<sep, "r">>)
  THEN SubSeq(s, 1, Len(s) - 2)
  ELSE s

\* normalized.replace(/__+/g, '_')
Collapse(s) ==
  SelectSeq([i \in 1..Len(s) |-> IF s[i] = "_" /\ i > 1 /\ s[i - 1] = "_" THEN "" ELSE s[i]],
            LAMBDA c : c # "")

\* normalized.replace(/^_|_$/g, ''): with the g flag both matches go
TrimAll(s) ==
  SubSeq(s, IF startsWith(s, <<"_">>) THEN 2 ELSE 1,
         IF endsWith(s, <<"_">>) THEN Len(s) - 1 ELSE Len(s))

\* normalized.replace(/[._]0*(\d+)$/g, '$1'): a '.' or '_' followed by digits
\* up to the end goes, and so do the zeros ahead of the last digits
RECURSIVE StripZeros(_)
StripZeros(d) ==
  IF Len(d) > 1 /\ d[1] = "0" THEN StripZeros(SubSeq(d, 2, Len(d))) ELSE d
NumericSuffix(s) ==
  LET At(i) == /\ s[i] \in {".", "_"}
               /\ i < Len(s)
               /\ \A j \in (i + 1)..Len(s) : s[j] \in Digits
  IN IF \E i \in 1..Len(s) : At(i)
     THEN LET i == CHOOSE k \in 1..Len(s) : At(k)
          IN SubSeq(s, 1, i - 1) \o StripZeros(SubSeq(s, i + 1, Len(s)))
     ELSE s

\* the side indicators removed, for a bone whose side is left or right
StripSide(s) ==
  TrimAll(Collapse(RemoveSideSuffix(RemoveSideSuffix(
    RemoveSidePrefix(
      ReplaceFrom(s, 1, <<<<"l", "e", "f", "t">>, <<"r", "i", "g", "h", "t">>, <<"l">>, <<"r">>>>, << >>)),
    "_"), ".")))

\* the category-specific replacements
CategoryWords(s, category) ==
  IF category = BoneCategory.Legs
  THEN ReplaceFrom(ReplaceFrom(s, 1, <<<<"u", "p", "p", "e", "r", "l", "e", "g">>, <<"u", "p", "l", "e", "g">>, <<"t", "h", "i", "g", "h">>>>, <<"t", "h", "i", "g", "h">>),
                    1, <<<<"l", "o", "w", "e", "r", "l", "e", "g">>, <<"l", "o", "w", "l", "e", "g">>, <<"s", "h", "i", "n">>, <<"c", "a", "l", "f">>>>, <<"c", "a", "l", "f">>)
  ELSE IF category = BoneCategory.Arms
  THEN ReplaceFrom(ReplaceFrom(s, 1, <<<<"u", "p", "p", "e", "r", "a", "r", "m">>, <<"u", "p", "a", "r", "m">>>>, <<"u", "p", "p", "e", "r", "a", "r", "m">>),
                    1, <<<<"l", "o", "w", "e", "r", "a", "r", "m">>, <<"l", "o", "w", "a", "r", "m">>, <<"f", "o", "r", "e", "a", "r", "m">>>>, <<"f", "o", "r", "e", "a", "r", "m">>)
  ELSE s

normalize_bone_name(bone_name, category, side) ==
  LET normalized == RemovePrefix(Separators(toLowerCase(bone_name)), common_prefixes, 1)
  IN TrimAll(Collapse(CategoryWords(NumericSuffix(
       IF side # BoneSide.Center /\ side # BoneSide.Unknown
       THEN StripSide(normalized)
       ELSE normalized), category)))

\* BoneMetadata; parent_name is << >> for null, <<name>> for a name
BoneMetadata(name, normalized_name, side, category, parent_name) ==
  [name |-> name, normalized_name |-> normalized_name, side |-> side,
   category |-> category, parent_name |-> parent_name]

create_bone_metadata(bone_name, parent_name) ==
  LET category == categorize_bone(bone_name)
      side == determine_bone_side(bone_name, category)
  IN BoneMetadata(bone_name, normalize_bone_name(bone_name, category, side),
                  side, category, parent_name)

\* a Map<string, string | null> in insertion order: the sequence of its
\* <<key, value>> entries; map.set(key, value), and the entries as a set
RECURSIVE MapSet(_, _, _)
MapSet(map, key, value) ==
  IF map = << >> THEN <<<<key, value>>>>
  ELSE IF map[1][1] = key THEN <<<<key, value>>>> \o SubSeq(map, 2, Len(map))
  ELSE <<map[1]>> \o MapSet(SubSeq(map, 2, Len(map)), key, value)
Entries(map) == {map[i] : i \in DOMAIN map}

\* new Map([...mappings, ...more])
RECURSIVE MapMerge(_, _)
MapMerge(mappings, more) ==
  IF more = << >> THEN mappings
  ELSE MapMerge(MapSet(mappings, more[1][1], more[1][2]), SubSeq(more, 2, Len(more)))

\* an Object3D of a scene graph as the mapper reads it: its type, its name
\* and its parent (<< >> for null, else <<[type, name]>>); a SkinnedMesh has
\* the bones of its skeleton
Node(type, name, parent) == [type |-> type, name |-> name, parent |-> parent]
SkinnedMesh(name, bones) ==
  [type |-> "SkinnedMesh", name |-> name, parent |-> << >>, bones |-> bones]

\* the parent name the two extractions record for a bone
ParentName(node) ==
  IF node.parent # << >> /\ node.parent[1].type = "Bone"
  THEN <<node.parent[1].name>>
  ELSE << >>

\* extract_source_bone_parent_map(source_armature), source_armature the nodes
\* that traverse() visits, in its order
RECURSIVE SourceParentsFrom(_, _, _)
SourceParentsFrom(nodes, i, parent_map) ==
  IF i > Len(nodes) THEN parent_map
  ELSE IF nodes[i].type = "Bone"
       THEN SourceParentsFrom(nodes, i + 1,
                              MapSet(parent_map, nodes[i].name, ParentName(nodes[i])))
       ELSE SourceParentsFrom(nodes, i + 1, parent_map)
extract_source_bone_parent_map(source_armature) ==
  SourceParentsFrom(source_armature, 1, << >>)

\* skeleton.bones.forEach of extract_target_bone_parent_map: a bone whose name
\* was processed is skipped
RECURSIVE BonesFrom(_, _, _)
BonesFrom(bones, k, parent_map) ==
  IF k > Len(bones) THEN parent_map
  ELSE IF \E i \in DOMAIN parent_map : parent_map[i][1] = bones[k].name
       THEN BonesFrom(bones, k + 1, parent_map)
       ELSE BonesFrom(bones, k + 1,
                      MapSet(parent_map, bones[k].name, ParentName(bones[k])))

\* extract_target_bone_parent_map(target_skeleton_data)
RECURSIVE TargetParentsFrom(_, _, _)
TargetParentsFrom(nodes, i, parent_map) ==
  IF i > Len(nodes) THEN parent_map
  ELSE IF nodes[i].type = "SkinnedMesh"
       THEN TargetParentsFrom(nodes, i + 1, BonesFrom(nodes[i].bones, 1, parent_map))
       ELSE TargetParentsFrom(nodes, i + 1, parent_map)
extract_target_bone_parent_map(target_skeleton_data) ==
  TargetParentsFrom(target_skeleton_data, 1, << >>)

\* create_all_bone_metadata(parent_map)
create_all_bone_metadata(parent_map) ==
  [i \in 1..Len(parent_map) |->
     create_bone_metadata(parent_map[i][1], parent_map[i][2])]

\* bones.filter(b => b.category === category)
Filter(bones, category) == SelectSeq(bones, LAMBDA b : b.category = category)

\* MixamoMapper.BONE_MAP: <<Mesh2Motion bone name, Mixamo bone name>>
BONE_MAP ==
  <<
    <<<<"D", "E", "F", "-", "h", "i", "p", "s">>, <<"m", "i", "x", "a", "m", "o", "r", "i", "g", "H", "i", "p", "s">>>>,
    <<<<"D", "E", "F", "-", "s", "p", "i", "n", "e", "0", "0", "1">>, <<"m", "i", "x", "a", "m", "o", "r", "i", "g", "S", "p", "i", "n", "e">>>>,
    <<<<"D", "E", "F", "-", "s", "p", "i", "n", "e", "0", "0", "2">>, <<"m", "i", "x", "a", "m", "o", "r", "i", "g", "S", "p", "i", "n", "e", "1">>>>,
    <<<<"D", "E", "F", "-", "s", "p", "i", "n", "e", "0", "0", "3">>, <<"m", "i", "x", "a", "m", "o", "r", "i", "g", "S", "p", "i", "n", "e", "2">>>>,
    <<<<"D", "E", "F", "-", "n", "e", "c", "k">>, <<"m", "i", "x", "a", "m", "o", "r", "i", "g", "N", "e", "c", "k">>>>,
    <<<<"D", "E", "F", "-", "h", "e", "a", "d">>, <<"m", "i", "x", "a", "m", "o", "r", "i", "g", "H", "e", "a", "d">>>>,
    <<<<"D", "E", "F", "-", "h", "e", "a", "d", "t", "i", "p">>, <<"m", "i", "x", "a", "m", "o", "r", "i", "g", "H", "e", "a", "d", "T", "o", "p", "_", "E", "n", "d">>>>,
    <<<<"D", "E", "F", "-", "s", "h", "o", "u", "l", "d", "e", "r", "L">>, <<"m", "i", "x", "a", "m", "o", "r", "i", "g", "L", "e", "f", "t", "S", "h", "o", "u", "l", "d", "e", "r">>>>,
    <<<<"D", "E", "F", "-", "u", "p", "p", "e", "r", "_", "a", "r", "m", "L">>, <<"m", "i", "x", "a", "m", "o", "r", "i", "g", "L", "e", "f", "t", "A", "r", "m">>>>,
    <<<<"D", "E", "F", "-", "f", "o", "r", "e", "a", "r", "m", "L">>, <<"m", "i", "x", "a", "m", "o", "r", "i", "g", "L", "e", "f", "t", "F", "o", "r", "e", "A", "r", "m">>>>,
    <<<<"D", "E", "F", "-", "h", "a", "n", "d", "L">>, <<"m", "i", "x", "a", "m", "o", "r", "i", "g", "L", "e", "f", "t", "H", "a", "n", "d">>>>,
    <<<<"D", "E", "F", "-", "s", "h", "o", "u", "l", "d", "e", "r", "R">>, <<"m", "i", "x", "a", "m", "o", "r", "i", "g", "R", "i", "g", "h", "t", "S", "h", "o", "u", "l", "d", "e", "r">>>>,
    <<<<"D", "E", "F", "-", "u", "p", "p", "e", "r", "_", "a", "r", "m", "R">>, <<"m", "i", "x", "a", "m", "o", "r", "i", "g", "R", "i", "g", "h", "t", "A", "r", "m">>>>,
    <<<<"D", "E", "F", "-", "f", "o", "r", "e", "a", "r", "m", "R">>, <<"m", "i", "x", "a", "m", "o", "r", "i", "g", "R", "i", "g", "h", "t", "F", "o", "r", "e", "A", "r", "m">>>>,
    <<<<"D", "E", "F", "-", "h", "a", "n", "d", "R">>, <<"m", "i", "x", "a", "m", "o", "r", "i", "g", "R", "i", "g", "h", "t", "H", "a", "n", "d">>>>,
    <<<<"D", "E", "F", "-", "t", "h", "i", "g", "h", "L">>, <<"m", "i", "x", "a", "m", "o", "r", "i", "g", "L", "e", "f", "t", "U", "p", "L", "e", "g">>>>,
    <<<<"D", "E", "F", "-", "s", "h", "i", "n", "L">>, <<"m", "i", "x", "a", "m", "o", "r", "i", "g", "L", "e", "f", "t", "L", "e", "g">>>>,
    <<<<"D", "E", "F", "-", "f", "o", "o", "t", "L">>, <<"m", "i", "x", "a", "m", "o", "r", "i", "g", "L", "e", "f", "t", "F", "o", "o", "t">>>>,
    <<<<"D", "E", "F", "-", "t", "o", "e", "L">>, <<"m", "i", "x", "a", "m", "o", "r", "i", "g", "L", "e", "f", "t", "T", "o", "e", "B", "a", "s", "e">>>>,
    <<<<"D", "E", "F", "-", "t", "o", "e", "_", "t", "i", "p", "L">>, <<"m", "i", "x", "a", "m", "o", "r", "i", "g", "L", "e", "f", "t", "T", "o", "e", "_", "E", "n", "d">>>>,
    <<<<"D", "E", "F", "-", "t", "h", "i", "g", "h", "R">>, <<"m", "i", "x", "a", "m", "o", "r", "i", "g", "R", "i", "g", "h", "t", "U", "p", "L", "e", "g">>>>,
    <<<<"D", "E", "F", "-", "s", "h", "i", "n", "R">>, <<"m", "i", "x", "a", "m", "o", "r", "i", "g", "R", "i", "g", "h", "t", "L", "e", "g">>>>,
    <<<<"D", "E", "F", "-", "f", "o", "o", "t", "R">>, <<"m", "i", "x", "a", "m", "o", "r", "i", "g", "R", "i", "g", "h", "t", "F", "o", "o", "t">>>>,
    <<<<"D", "E", "F", "-", "t", "o", "e", "R">>, <<"m", "i", "x", "a", "m", "o", "r", "i", "g", "R", "i", "g", "h", "t", "T", "o", "e", "B", "a", "s", "e">>>>,
    <<<<"D", "E", "F", "-", "t", "o", "e", "_", "t", "i", "p", "R">>, <<"m", "i", "x", "a", "m", "o", "r", "i", "g", "R", "i", "g", "h", "t", "T", "o", "e", "_", "E", "n", "d">>>>,
    <<<<"D", "E", "F", "-", "t", "h", "u", "m", "b", "0", "1", "L">>, <<"m", "i", "x", "a", "m", "o", "r", "i", "g", "L", "e", "f", "t", "H", "a", "n", "d", "T", "h", "u", "m", "b", "1">>>>,
    <<<<"D", "E", "F", "-", "t", "h", "u", "m", "b", "0", "2", "L">>, <<"m", "i", "x", "a", "m", "o", "r", "i", "g", "L", "e", "f", "t", "H", "a", "n", "d", "T", "h", "u", "m", "b", "2">>>>,
    <<<<"D", "E", "F", "-", "t", "h", "u", "m", "b", "0", "3", "L">>, <<"m", "i", "x", "a", "m", "o", "r", "i", "g", "L", "e", "f", "t", "H", "a", "n", "d", "T", "h", "u", "m", "b", "3">>>>,
    <<<<"D", "E", "F", "-", "t", "h", "u", "m", "b", "_", "0", "4", "_", "t", "i", "p", "L">>, <<"m", "i", "x", "a", "m", "o", "r", "i", "g", "L", "e", "f", "t", "H", "a", "n", "d", "T", "h", "u", "m", "b", "4">>>>,
    <<<<"D", "E", "F", "-", "f", "_", "i", "n", "d", "e", "x", "0", "1", "L">>, <<"m", "i", "x", "a", "m", "o", "r", "i", "g", "L", "e", "f", "t", "H", "a", "n", "d", "I", "n", "d", "e", "x", "1">>>>,
    <<<<"D", "E", "F", "-", "f", "_", "i", "n", "d", "e", "x", "0", "2", "L">>, <<"m", "i", "x", "a", "m", "o", "r", "i", "g", "L", "e", "f", "t", "H", "a", "n", "d", "I", "n", "d", "e", "x", "2">>>>,
    <<<<"D", "E", "F", "-", "f", "_", "i", "n", "d", "e", "x", "0", "3", "L">>, <<"m", "i", "x", "a", "m", "o", "r", "i", "g", "L", "e", "f", "t", "H", "a", "n", "d", "I", "n", "d", "e", "x", "3">>>>,
    <<<<"D", "E", "F", "-", "f", "_", "i", "n", "d", "e", "x", "0", "4", "_", "t", "i", "p", "L">>, <<"m", "i", "x", "a", "m", "o", "r", "i", "g", "L", "e", "f", "t", "H", "a", "n", "d", "I", "n", "d", "e", "x", "4">>>>,
    <<<<"D", "E", "F", "-", "f", "_", "m", "i", "d", "d", "l", "e", "0", "1", "L">>, <<"m", "i", "x", "a", "m", "o", "r", "i", "g", "L", "e", "f", "t", "H", "a", "n", "d", "M", "i", "d", "d", "l", "e", "1">>>>,
    <<<<"D", "E", "F", "-", "f", "_", "m", "i", "d", "d", "l", "e", "0", "2", "L">>, <<"m", "i", "x", "a", "m", "o", "r", "i", "g", "L", "e", "f", "t", "H", "a", "n", "d", "M", "i", "d", "d", "l", "e", "2">>>>,
    <<<<"D", "E", "F", "-", "f", "_", "m", "i", "d", "d", "l", "e", "0", "3", "L">>, <<"m", "i", "x", "a", "m", "o", "r", "i", "g", "L", "e", "f", "t", "H", "a", "n", "d", "M", "i", "d", "d", "l", "e", "3">>>>,
    <<<<"D", "E", "F", "-", "f", "_", "m", "i", "d", "d", "l", "e", "0", "4", "_", "t", "i", "p", "L">>, <<"m", "i", "x", "a", "m", "o", "r", "i", "g", "L", "e", "f", "t", "H", "a", "n", "d", "M", "i", "d", "d", "l", "e", "4">>>>,
    <<<<"D", "E", "F", "-", "f", "_", "r", "i", "n", "g", "0", "1", "L">>, <<"m", "i", "x", "a", "m", "o", "r", "i", "g", "L", "e", "f", "t", "H", "a", "n", "d", "R", "i", "n", "g", "1">>>>,
    <<<<"D", "E", "F", "-", "f", "_", "r", "i", "n", "g", "0", "2", "L">>, <<"m", "i", "x", "a", "m", "o", "r", "i", "g", "L", "e", "f", "t", "H", "a", "n", "d", "R", "i", "n", "g", "2">>>>,
    <<<<"D", "E", "F", "-", "f", "_", "r", "i", "n", "g", "0", "3", "L">>, <<"m", "i", "x", "a", "m", "o", "r", "i", "g", "L", "e", "f", "t", "H", "a", "n", "d", "R", "i", "n", "g", "3">>>>,
    <<<<"D", "E", "F", "-", "f", "_", "r", "i", "n", "g", "0", "4", "_", "t", "i", "p", "L">>, <<"m", "i", "x", "a", "m", "o", "r", "i", "g", "L", "e", "f", "t", "H", "a", "n", "d", "R", "i", "n", "g", "4">>>>,
    <<<<"D", "E", "F", "-", "f", "_", "p", "i", "n", "k", "y", "0", "1", "L">>, <<"m", "i", "x", "a", "m", "o", "r", "i", "g", "L", "e", "f", "t", "H", "a", "n", "d", "P", "i", "n", "k", "y", "1">>>>,
    <<<<"D", "E", "F", "-", "f", "_", "p", "i", "n", "k", "y", "0", "2", "L">>, <<"m", "i", "x", "a", "m", "o", "r", "i", "g", "L", "e", "f", "t", "H", "a", "n", "d", "P", "i", "n", "k", "y", "2">>>>,
    <<<<"D", "E", "F", "-", "f", "_", "p", "i", "n", "k", "y", "0", "3", "L">>, <<"m", "i", "x", "a", "m", "o", "r", "i", "g", "L", "e", "f", "t", "H", "a", "n", "d", "P", "i", "n", "k", "y", "3">>>>,
    <<<<"D", "E", "F", "-", "f", "_", "p", "i", "n", "k", "y", "0", "4", "_", "t", "i", "p", "L">>, <<"m", "i", "x", "a", "m", "o", "r", "i", "g", "L", "e", "f", "t", "H", "a", "n", "d", "P", "i", "n", "k", "y", "4">>>>,
    <<<<"D", "E", "F", "-", "t", "h", "u", "m", "b", "0", "1", "R">>, <<"m", "i", "x", "a", "m", "o", "r", "i", "g", "R", "i", "g", "h", "t", "H", "a", "n", "d", "T", "h", "u", "m", "b", "1">>>>,
    <<<<"D", "E", "F", "-", "t", "h", "u", "m", "b", "0", "2", "R">>, <<"m", "i", "x", "a", "m", "o", "r", "i", "g", "R", "i", "g", "h", "t", "H", "a", "n", "d", "T", "h", "u", "m", "b", "2">>>>,
    <<<<"D", "E", "F", "-", "t", "h", "u", "m", "b", "0", "3", "R">>, <<"m", "i", "x", "a", "m", "o", "r", "i", "g", "R", "i", "g", "h", "t", "H", "a", "n", "d", "T", "h", "u", "m", "b", "3">>>>,
    <<<<"D", "E", "F", "-", "t", "h", "u", "m", "b", "0", "4", "_", "t", "i", "p", "R">>, <<"m", "i", "x", "a", "m", "o", "r", "i", "g", "R", "i", "g", "h", "t", "H", "a", "n", "d", "T", "h", "u", "m", "b", "4">>>>,
    <<<<"D", "E", "F", "-", "f", "_", "i", "n", "d", "e", "x", "0", "1", "R">>, <<"m", "i", "x", "a", "m", "o", "r", "i", "g", "R", "i", "g", "h", "t", "H", "a", "n", "d", "I", "n", "d", "e", "x", "1">>>>,
    <<<<"D", "E", "F", "-", "f", "_", "i", "n", "d", "e", "x", "0", "2", "R">>, <<"m", "i", "x", "a", "m", "o", "r", "i", "g", "R", "i", "g", "h", "t", "H", "a", "n", "d", "I", "n", "d", "e", "x", "2">>>>,
    <<<<"D", "E", "F", "-", "f", "_", "i", "n", "d", "e", "x", "0", "3", "R">>, <<"m", "i", "x", "a", "m", "o", "r", "i", "g", "R", "i", "g", "h", "t", "H", "a", "n", "d", "I", "n", "d", "e", "x", "3">>>>,
    <<<<"D", "E", "F", "-", "f", "_", "i", "n", "d", "e", "x", "0", "4", "_", "t", "i", "p", "R">>, <<"m", "i", "x", "a", "m", "o", "r", "i", "g", "R", "i", "g", "h", "t", "H", "a", "n", "d", "I", "n", "d", "e", "x", "4">>>>,
    <<<<"D", "E", "F", "-", "f", "_", "m", "i", "d", "d", "l", "e", "0", "1", "R">>, <<"m", "i", "x", "a", "m", "o", "r", "i", "g", "R", "i", "g", "h", "t", "H", "a", "n", "d", "M", "i", "d", "d", "l", "e", "1">>>>,
    <<<<"D", "E", "F", "-", "f", "_", "m", "i", "d", "d", "l", "e", "0", "2", "R">>, <<"m", "i", "x", "a", "m", "o", "r", "i", "g", "R", "i", "g", "h", "t", "H", "a", "n", "d", "M", "i", "d", "d", "l", "e", "2">>>>,
    <<<<"D", "E", "F", "-", "f", "_", "m", "i", "d", "d", "l", "e", "0", "3", "R">>, <<"m", "i", "x", "a", "m", "o", "r", "i", "g", "R", "i", "g", "h", "t", "H", "a", "n", "d", "M", "i", "d", "d", "l", "e", "3">>>>,
    <<<<"D", "E", "F", "-", "f", "_", "m", "i", "d", "d", "l", "e", "0", "4", "_", "t", "i", "p", "R">>, <<"m", "i", "x", "a", "m", "o", "r", "i", "g", "R", "i", "g", "h", "t", "H", "a", "n", "d", "M", "i", "d", "d", "l", "e", "4">>>>,
    <<<<"D", "E", "F", "-", "f", "_", "r", "i", "n", "g", "0", "1", "R">>, <<"m", "i", "x", "a", "m", "o", "r", "i", "g", "R", "i", "g", "h", "t", "H", "a", "n", "d", "R", "i", "n", "g", "1">>>>,
    <<<<"D", "E", "F", "-", "f", "_", "r", "i", "n", "g", "0", "2", "R">>, <<"m", "i", "x", "a", "m", "o", "r", "i", "g", "R", "i", "g", "h", "t", "H", "a", "n", "d", "R", "i", "n", "g", "2">>>>,
    <<<<"D", "E", "F", "-", "f", "_", "r", "i", "n", "g", "0", "3", "R">>, <<"m", "i", "x", "a", "m", "o", "r", "i", "g", "R", "i", "g", "h", "t", "H", "a", "n", "d", "R", "i", "n", "g", "3">>>>,
    <<<<"D", "E", "F", "-", "f", "_", "r", "i", "n", "g", "0", "4", "_", "t", "i", "p", "R">>, <<"m", "i", "x", "a", "m", "o", "r", "i", "g", "R", "i", "g", "h", "t", "H", "a", "n", "d", "R", "i", "n", "g", "4">>>>,
    <<<<"D", "E", "F", "-", "f", "_", "p", "i", "n", "k", "y", "0", "1", "R">>, <<"m", "i", "x", "a", "m", "o", "r", "i", "g", "R", "i", "g", "h", "t", "H", "a", "n", "d", "P", "i", "n", "k", "y", "1">>>>,
    <<<<"D", "E", "F", "-", "f", "_", "p", "i", "n", "k", "y", "0", "2", "R">>, <<"m", "i", "x", "a", "m", "o", "r", "i", "g", "R", "i", "g", "h", "t", "H", "a", "n", "d", "P", "i", "n", "k", "y", "2">>>>,
    <<<<"D", "E", "F", "-", "f", "_", "p", "i", "n", "k", "y", "0", "3", "R">>, <<"m", "i", "x", "a", "m", "o", "r", "i", "g", "R", "i", "g", "h", "t", "H", "a", "n", "d", "P", "i", "n", "k", "y", "3">>>>,
    <<<<"D", "E", "F", "-", "f", "_", "p", "i", "n", "k", "y", "0", "4", "_", "t", "i", "p", "R">>, <<"m", "i", "x", "a", "m", "o", "r", "i", "g", "R", "i", "g", "h", "t", "H", "a", "n", "d", "P", "i", "n", "k", "y", "4">>>>
  >>

\* the loop of MixamoMapper.map_mixamo_bones from source bone i on: expected
\* is this.BONE_MAP[source_bone.name] as << >> or <<value>> (a name the table
\* lacks gives undefined or a member of Object.prototype, and no target bone
\* has either as its name)
RECURSIVE MixamoFrom(_, _, _, _)
MixamoFrom(source_bones, target_bones, i, mappings) ==
  LET rows == {k \in DOMAIN BONE_MAP : BONE_MAP[k][1] = source_bones[i].name}
      expected == IF rows = {} THEN << >> ELSE <<BONE_MAP[CHOOSE k \in rows : TRUE][2]>>
      found == /\ expected # << >>
               /\ \E k \in DOMAIN target_bones : target_bones[k].name = expected[1]
  IN IF i > Len(source_bones) THEN mappings
     ELSE IF found
          THEN MixamoFrom(source_bones, target_bones, i + 1,
                          MapSet(mappings, expected[1], source_bones[i].name))
          ELSE MixamoFrom(source_bones, target_bones, i + 1, mappings)
map_mixamo_bones(source_bones, target_bones) ==
  MixamoFrom(source_bones, target_bones, 1, << >>)

\* a plausible slip in a matcher: the target bone mapped to the first source
\* bone, whatever its normalized name
MatchFirstFrom(source_bones, target_bones, k, mappings) ==
  IF k > Len(target_bones) \/ source_bones = << >> THEN mappings
  ELSE MapSet(mappings, target_bones[k].name, source_bones[1].name)

\* the matchers of BoneCategoryMapper, from target bone k on: a target bone is
\* mapped to the first source bone of the category that has its normalized
\* name
RECURSIVE MatchFrom(_, _, _, _)
MatchFrom(source_bones, target_bones, k, mappings) ==
  LET Same(i) == source_bones[i].normalized_name = target_bones[k].normalized_name
  IN IF k > Len(target_bones) THEN mappings
     ELSE IF \E i \in DOMAIN source_bones : Same(i)
          THEN MatchFrom(source_bones, target_bones, k + 1,
                 MapSet(mappings, target_bones[k].name,
                        source_bones[CHOOSE i \in DOMAIN source_bones :
                                       Same(i) /\ \A j \in 1..(i - 1) : ~Same(j)].name))
          ELSE MatchFrom(source_bones, target_bones, k + 1, mappings)

\* BoneCategoryMapper.map_torso_bones, map_arm_bones, map_hand_bones,
\* map_leg_bones, map_wing_bones, map_tail_bones and map_unknown_bones: the
\* seven methods match in the same way
BoneCategoryMapper(method, source_bones, target_bones) ==
  MatchFrom(source_bones, target_bones, 1, << >>)

\* the categories in the order auto_map_bones goes through them, and the
\* switch on the category
categories ==
  <<BoneCategory.Torso, BoneCategory.Arms, BoneCategory.Hands, BoneCategory.Legs,
    BoneCategory.Wings, BoneCategory.Tail, BoneCategory.Unknown>>
MapCategory(category, source_bones_in_category, target_bones_in_category) ==
  CASE category = BoneCategory.Torso ->
         BoneCategoryMapper("map_torso_bones", source_bones_in_category,
                            target_bones_in_category)
    [] category = BoneCategory.Arms ->
         BoneCategoryMapper("map_arm_bones", source_bones_in_category,
                            target_bones_in_category)
    [] category = BoneCategory.Hands ->
         BoneCategoryMapper("map_hand_bones", source_bones_in_category,
                            target_bones_in_category)
    [] category = BoneCategory.Legs ->
         BoneCategoryMapper("map_leg_bones", source_bones_in_category,
                            target_bones_in_category)
    [] category = BoneCategory.Wings ->
         BoneCategoryMapper("map_wing_bones", source_bones_in_category,
                            target_bones_in_category)
    [] category = BoneCategory.Tail ->
         BoneCategoryMapper("map_tail_bones", source_bones_in_category,
                            target_bones_in_category)
    [] category = BoneCategory.Unknown ->
         BoneCategoryMapper("map_unknown_bones", source_bones_in_category,
                            target_bones_in_category)

\* the loop of auto_map_bones over the categories, from category c on
RECURSIVE CategoriesFrom(_, _, _, _)
CategoriesFrom(source_bones_meta, target_bones_meta, c, mappings) ==
  IF c > Len(categories) THEN mappings
  ELSE CategoriesFrom(source_bones_meta, target_bones_meta, c + 1,
         MapMerge(mappings,
                  MapCategory(categories[c],
                              Filter(source_bones_meta, categories[c]),
                              Filter(target_bones_meta, categories[c]))))

\* the enum TargetBoneMappingType
TargetBoneMappingType == [Mixamo |-> "mixamo", Custom |-> "custom"]

\* a plausible slip in auto_map_bones: the direct mapping of a Mixamo rig left
\* out
AutoMapHeuristic(source_bones_meta, target_bones_meta, target_bone_mapping_type) ==
  CategoriesFrom(source_bones_meta, target_bones_meta, 1, << >>)

\* auto_map_bones from the metadata of both skeletons on
AutoMapFrom(source_bones_meta, target_bones_meta, target_bone_mapping_type) ==
  IF target_bone_mapping_type = TargetBoneMappingType.Mixamo
  THEN map_mixamo_bones(source_bones_meta, target_bones_meta)
  ELSE CategoriesFrom(source_bones_meta, target_bones_meta, 1, << >>)

auto_map_bones(source_armature, target_skeleton_data, target_bone_mapping_type) ==
  AutoMapFrom(
    create_all_bone_metadata(extract_source_bone_parent_map(source_armature)),
    create_all_bone_metadata(extract_target_bone_parent_map(target_skeleton_data)),
    target_bone_mapping_type)

-----------------------------------------------------------------------------
(* The mapper specification: the bone names of a source armature and of a  *)
(* target scene are drawn, and the mapper is run on them.                  *)

\* the bones of a skeleton with these names, each the child of the one
\* before it and the first the child of the armature object
BoneNode(names, i) ==
  Node("Bone", names[i],
       IF i = 1 THEN <<[type |-> "Object3D", name |-> <<"A", "r", "m", "a", "t", "u", "r", "e">>]>>
       ELSE <<[type |-> "Bone", name |-> names[i - 1]]>>)
Bones(names) == [i \in 1..Len(names) |-> BoneNode(names, i)]

\* a source armature, and a target scene of two skinned meshes that share
\* the skeleton, as traverse() visits them
Armature(names) == <<Node("Object3D", <<"A", "r", "m", "a", "t", "u", "r", "e">>, << >>)>> \o Bones(names)
Scene(names) ==
  <<Node("Scene", <<"S", "c", "e", "n", "e">>, << >>), SkinnedMesh(<<"B", "o", "d", "y">>, Bones(names)),
    SkinnedMesh(<<"E", "y", "e", "s">>, Bones(names))>>

Input(source, target, type) ==
  [names |-> <<source, target>>, source_armature |-> Armature(source),
   target_skeleton_data |-> Scene(target), type |-> type]

\* bone names: a stem with a prefix or a suffix in the styles rigs use
Stems ==
  {<<"U", "p", "p", "e", "r", "A", "r", "m">>, <<"H", "a", "n", "d">>, <<"L", "e", "g">>, <<"W", "i", "n", "g">>, <<"T", "a", "i", "l">>, <<"H", "i", "p", "s">>, <<"A", "r", "m", "H", "a", "n", "d">>, <<"B", "o", "n", "e">>,
   <<"S", "h", "o", "u", "l", "d", "e", "r">>, <<"U", "p", "L", "e", "f", "t", "A", "r", "m">>, <<"T", "h", "i", "g", "h", "B", "o", "n", "e">>}
Prefixes == {<<>>, <<"L", "e", "f", "t">>, <<"R", "i", "g", "h", "t">>, <<"l", "_">>, <<"r", "_">>, <<"m", "i", "x", "a", "m", "o", "r", "i", "g", ":">>, <<"D", "E", "F", "-">>}
Suffixes ==
  {<<>>, <<"L", "e", "f", "t">>, <<"R", "i", "g", "h", "t">>, <<"_", "l", "e", "f", "t">>, <<"_", "r", "i", "g", "h", "t">>, <<"_", "l">>, <<"_", "r">>, <<".", "L">>, <<".", "R">>, <<"L">>, <<"R">>,
   <<"0", "1">>, <<"_", "1">>, <<".", "0", "0", "1">>}
SidePrefixes == {<<"L", "e", "f", "t">>, <<"R", "i", "g", "h", "t">>, <<"l", "_">>, <<"r", "_">>}
SideSuffixes == {<<"L", "e", "f", "t">>, <<"R", "i", "g", "h", "t">>, <<"_", "l">>, <<"_", "r">>, <<"L">>, <<"R">>}
Names ==
  {p \o st : p \in Prefixes, st \in Stems}
    \cup {st \o sf : st \in Stems, sf \in Suffixes}
    \cup {p \o <<"a", "r", "m">> \o sf : p \in SidePrefixes, sf \in SideSuffixes}

\* paired names that differ in the side token only
PairStems == {<<"U", "p", "p", "e", "r", "A", "r", "m">>, <<"a", "r", "m">>, <<"H", "a", "n", "d">>, <<"l", "e", "g">>, <<"W", "i", "n", "g">>}
PrefixPairs == {<<<<"L", "e", "f", "t">>, <<"R", "i", "g", "h", "t">>>>, <<<<"l", "_">>, <<"r", "_">>>>, <<<<"l", "e", "f", "t", "_">>, <<"r", "i", "g", "h", "t", "_">>>>}
SuffixPairs ==
  {<<<<"_", "l", "e", "f", "t">>, <<"_", "r", "i", "g", "h", "t">>>>, <<<<"_", "l">>, <<"_", "r">>>>, <<<<".", "L">>, <<".", "R">>>>, <<<<"L">>, <<"R">>>>,
   <<<<"L", "e", "f", "t">>, <<"R", "i", "g", "h", "t">>>>}
SidePairs ==
  {<<p[1] \o st, p[2] \o st>> : p \in PrefixPairs, st \in PairStems}
    \cup {<<st \o p[1], st \o p[2]>> : p \in SuffixPairs, st \in PairStems}

\* names that differ in the form of the numeric suffix only
SuffixStems == {<<"s", "p", "i", "n", "e">>, <<"T", "a", "i", "l">>, <<"f", "i", "n", "g", "e", "r">>, <<"D", "E", "F", "-", "t", "o", "e">>}
SuffixTriples == {<<st \o <<"0", "1">>, st \o <<"0", "0", "1">>, st \o <<"_", "1">>>> : st \in SuffixStems}

\* source and target lists of one category, of which some names are in both
CategoryLists ==
  {<<<<<<"S", "p", "i", "n", "e">>, <<"C", "h", "e", "s", "t">>, <<"N", "e", "c", "k">>>>, <<<<"S", "p", "i", "n", "e">>, <<"C", "h", "e", "s", "t">>>>>>,
   <<<<<<"L", "e", "f", "t", "S", "h", "o", "u", "l", "d", "e", "r">>, <<"L", "e", "f", "t", "U", "p", "p", "e", "r", "A", "r", "m">>, <<"R", "i", "g", "h", "t", "S", "h", "o", "u", "l", "d", "e", "r">>>>,
     <<<<"L", "e", "f", "t", "S", "h", "o", "u", "l", "d", "e", "r">>, <<"R", "i", "g", "h", "t", "S", "h", "o", "u", "l", "d", "e", "r">>>>>>,
   <<<<<<"L", "e", "f", "t", "H", "a", "n", "d">>, <<"L", "e", "f", "t", "T", "h", "u", "m", "b">>, <<"L", "e", "f", "t", "I", "n", "d", "e", "x">>>>, <<<<"L", "e", "f", "t", "H", "a", "n", "d">>, <<"L", "e", "f", "t", "T", "h", "u", "m", "b">>>>>>,
   <<<<<<"L", "e", "f", "t", "T", "h", "i", "g", "h">>, <<"L", "e", "f", "t", "K", "n", "e", "e">>, <<"R", "i", "g", "h", "t", "T", "h", "i", "g", "h">>>>, <<<<"L", "e", "f", "t", "T", "h", "i", "g", "h">>, <<"R", "i", "g", "h", "t", "T", "h", "i", "g", "h">>>>>>,
   <<<<<<"L", "e", "f", "t", "W", "i", "n", "g", "1">>, <<"L", "e", "f", "t", "W", "i", "n", "g", "2">>, <<"R", "i", "g", "h", "t", "W", "i", "n", "g", "1">>>>, <<<<"L", "e", "f", "t", "W", "i", "n", "g", "1">>, <<"R", "i", "g", "h", "t", "W", "i", "n", "g", "1">>>>>>,
   <<<<<<"T", "a", "i", "l", "1">>, <<"T", "a", "i", "l", "2">>, <<"T", "a", "i", "l", "3">>>>, <<<<"T", "a", "i", "l", "1">>, <<"T", "a", "i", "l", "2">>>>>>,
   <<<<<<"B", "o", "n", "e", "1">>, <<"B", "o", "n", "e", "2">>, <<"P", "r", "o", "p">>>>, <<<<"b", "o", "n", "e", "_", "1">>, <<"P", "r", "o", "p">>>>>>,
   <<<<<<"S", "p", "i", "n", "e">>, <<"L", "e", "f", "t", "W", "i", "n", "g", "1">>, <<"L", "e", "f", "t", "H", "a", "n", "d">>>>, <<<<"S", "p", "i", "n", "e">>, <<"L", "e", "f", "t", "H", "a", "n", "d">>>>>>,
   <<<< >>, << >>>>}

\* HumanChainConfig: the joint names of each chain in the Mesh2Motion rig and
\* in a Mixamo rig
mesh2motion_config ==
  [
    pelvis |-> <<<<"D", "E", "F", "-", "h", "i", "p", "s">>>>,
    spine |-> <<<<"D", "E", "F", "-", "s", "p", "i", "n", "e", "0", "0", "1">>,
                 <<"D", "E", "F", "-", "s", "p", "i", "n", "e", "0", "0", "2">>,
                 <<"D", "E", "F", "-", "s", "p", "i", "n", "e", "0", "0", "3">>>>,
    head |-> <<<<"D", "E", "F", "-", "n", "e", "c", "k">>,
                 <<"D", "E", "F", "-", "h", "e", "a", "d">>>>,
    armL |-> <<<<"D", "E", "F", "-", "u", "p", "p", "e", "r", "_", "a", "r", "m", "L">>,
                 <<"D", "E", "F", "-", "f", "o", "r", "e", "a", "r", "m", "L">>,
                 <<"D", "E", "F", "-", "h", "a", "n", "d", "L">>>>,
    armR |-> <<<<"D", "E", "F", "-", "u", "p", "p", "e", "r", "_", "a", "r", "m", "R">>,
                 <<"D", "E", "F", "-", "f", "o", "r", "e", "a", "r", "m", "R">>,
                 <<"D", "E", "F", "-", "h", "a", "n", "d", "R">>>>,
    legL |-> <<<<"D", "E", "F", "-", "t", "h", "i", "g", "h", "L">>,
                 <<"D", "E", "F", "-", "s", "h", "i", "n", "L">>,
                 <<"D", "E", "F", "-", "f", "o", "o", "t", "L">>>>,
    legR |-> <<<<"D", "E", "F", "-", "t", "h", "i", "g", "h", "R">>,
                 <<"D", "E", "F", "-", "s", "h", "i", "n", "R">>,
                 <<"D", "E", "F", "-", "f", "o", "o", "t", "R">>>>,
    fingersThumbL |-> <<<<"D", "E", "F", "-", "t", "h", "u", "m", "b", "0", "1", "L">>,
                 <<"D", "E", "F", "-", "t", "h", "u", "m", "b", "0", "2", "L">>,
                 <<"D", "E", "F", "-", "t", "h", "u", "m", "b", "0", "3", "L">>,
                 <<"D", "E", "F", "-", "t", "h", "u", "m", "b", "0", "4", "_", "t", "i", "p", "L">>>>,
    fingersThumbR |-> <<<<"D", "E", "F", "-", "t", "h", "u", "m", "b", "0", "1", "R">>,
                 <<"D", "E", "F", "-", "t", "h", "u", "m", "b", "0", "2", "R">>,
                 <<"D", "E", "F", "-", "t", "h", "u", "m", "b", "0", "3", "R">>,
                 <<"D", "E", "F", "-", "t", "h", "u", "m", "b", "0", "4", "_", "t", "i", "p", "R">>>>,
    fingersIndexL |-> <<<<"D", "E", "F", "-", "f", "_", "i", "n", "d", "e", "x", "0", "1", "L">>,
                 <<"D", "E", "F", "-", "f", "_", "i", "n", "d", "e", "x", "0", "2", "L">>,
                 <<"D", "E", "F", "-", "f", "_", "i", "n", "d", "e", "x", "0", "3", "L">>,
                 <<"D", "E", "F", "-", "f", "_", "i", "n", "d", "e", "x", "0", "4", "_", "t", "i", "p", "L">>>>,
    fingersIndexR |-> <<<<"D", "E", "F", "-", "f", "_", "i", "n", "d", "e", "x", "0", "1", "R">>,
                 <<"D", "E", "F", "-", "f", "_", "i", "n", "d", "e", "x", "0", "2", "R">>,
                 <<"D", "E", "F", "-", "f", "_", "i", "n", "d", "e", "x", "0", "3", "R">>,
                 <<"D", "E", "F", "-", "f", "_", "i", "n", "d", "e", "x", "0", "4", "_", "t", "i", "p", "R">>>>,
    fingersMiddleL |-> <<<<"D", "E", "F", "-", "f", "_", "m", "i", "d", "d", "l", "e", "0", "1", "L">>,
                 <<"D", "E", "F", "-", "f", "_", "m", "i", "d", "d", "l", "e", "0", "2", "L">>,
                 <<"D", "E", "F", "-", "f", "_", "m", "i", "d", "d", "l", "e", "0", "3", "L">>,
                 <<"D", "E", "F", "-", "f", "_", "m", "i", "d", "d", "l", "e", "0", "4", "_", "t", "i", "p", "L">>>>,
    fingersMiddleR |-> <<<<"D", "E", "F", "-", "f", "_", "m", "i", "d", "d", "l", "e", "0", "1", "R">>,
                 <<"D", "E", "F", "-", "f", "_", "m", "i", "d", "d", "l", "e", "0", "2", "R">>,
                 <<"D", "E", "F", "-", "f", "_", "m", "i", "d", "d", "l", "e", "0", "3", "R">>,
                 <<"D", "E", "F", "-", "f", "_", "m", "i", "d", "d", "l", "e", "0", "4", "_", "t", "i", "p", "R">>>>,
    fingersRingL |-> <<<<"D", "E", "F", "-", "f", "_", "r", "i", "n", "g", "0", "1", "L">>,
                 <<"D", "E", "F", "-", "f", "_", "r", "i", "n", "g", "0", "2", "L">>,
                 <<"D", "E", "F", "-", "f", "_", "r", "i", "n", "g", "0", "3", "L">>,
                 <<"D", "E", "F", "-", "f", "_", "r", "i", "n", "g", "0", "4", "_", "t", "i", "p", "L">>>>,
    fingersRingR |-> <<<<"D", "E", "F", "-", "f", "_", "r", "i", "n", "g", "0", "1", "R">>,
                 <<"D", "E", "F", "-", "f", "_", "r", "i", "n", "g", "0", "2", "R">>,
                 <<"D", "E", "F", "-", "f", "_", "r", "i", "n", "g", "0", "3", "R">>,
                 <<"D", "E", "F", "-", "f", "_", "r", "i", "n", "g", "0", "4", "_", "t", "i", "p", "R">>>>,
    fingersPinkyL |-> <<<<"D", "E", "F", "-", "f", "_", "p", "i", "n", "k", "y", "0", "1", "L">>,
                 <<"D", "E", "F", "-", "f", "_", "p", "i", "n", "k", "y", "0", "2", "L">>,
                 <<"D", "E", "F", "-", "f", "_", "p", "i", "n", "k", "y", "0", "3", "L">>,
                 <<"D", "E", "F", "-", "f", "_", "p", "i", "n", "k", "y", "0", "4", "_", "t", "i", "p", "L">>>>,
    fingersPinkyR |-> <<<<"D", "E", "F", "-", "f", "_", "p", "i", "n", "k", "y", "0", "1", "R">>,
                 <<"D", "E", "F", "-", "f", "_", "p", "i", "n", "k", "y", "0", "2", "R">>,
                 <<"D", "E", "F", "-", "f", "_", "p", "i", "n", "k", "y", "0", "3", "R">>,
                 <<"D", "E", "F", "-", "f", "_", "p", "i", "n", "k", "y", "0", "4", "_", "t", "i", "p", "R">>>>
  ]

mixamo_config ==
  [
    pelvis |-> <<<<"m", "i", "x", "a", "m", "o", "r", "i", "g", "H", "i", "p", "s">>>>,
    spine |-> <<<<"m", "i", "x", "a", "m", "o", "r", "i", "g", "S", "p", "i", "n", "e">>,
                 <<"m", "i", "x", "a", "m", "o", "r", "i", "g", "S", "p", "i", "n", "e", "1">>,
                 <<"m", "i", "x", "a", "m", "o", "r", "i", "g", "S", "p", "i", "n", "e", "2">>>>,
    head |-> <<<<"m", "i", "x", "a", "m", "o", "r", "i", "g", "N", "e", "c", "k">>,
                 <<"m", "i", "x", "a", "m", "o", "r", "i", "g", "H", "e", "a", "d">>>>,
    armL |-> <<<<"m", "i", "x", "a", "m", "o", "r", "i", "g", "L", "e", "f", "t", "A", "r", "m">>,
                 <<"m", "i", "x", "a", "m", "o", "r", "i", "g", "L", "e", "f", "t", "F", "o", "r", "e", "A", "r", "m">>,
                 <<"m", "i", "x", "a", "m", "o", "r", "i", "g", "L", "e", "f", "t", "H", "a", "n", "d">>>>,
    armR |-> <<<<"m", "i", "x", "a", "m", "o", "r", "i", "g", "R", "i", "g", "h", "t", "A", "r", "m">>,
                 <<"m", "i", "x", "a", "m", "o", "r", "i", "g", "R", "i", "g", "h", "t", "F", "o", "r", "e", "A", "r", "m">>,
                 <<"m", "i", "x", "a", "m", "o", "r", "i", "g", "R", "i", "g", "h", "t", "H", "a", "n", "d">>>>,
    legL |-> <<<<"m", "i", "x", "a", "m", "o", "r", "i", "g", "L", "e", "f", "t", "U", "p", "L", "e", "g">>,
                 <<"m", "i", "x", "a", "m", "o", "r", "i", "g", "L", "e", "f", "t", "L", "e", "g">>,
                 <<"m", "i", "x", "a", "m", "o", "r", "i", "g", "L", "e", "f", "t", "F", "o", "o", "t">>>>,
    legR |-> <<<<"m", "i", "x", "a", "m", "o", "r", "i", "g", "R", "i", "g", "h", "t", "U", "p", "L", "e", "g">>,
                 <<"m", "i", "x", "a", "m", "o", "r", "i", "g", "R", "i", "g", "h", "t", "L", "e", "g">>,
                 <<"m", "i", "x", "a", "m", "o", "r", "i", "g", "R", "i", "g", "h", "t", "F", "o", "o", "t">>>>,
    fingersThumbL |-> <<<<"m", "i", "x", "a", "m", "o", "r", "i", "g", "L", "e", "f", "t", "H", "a", "n", "d", "T", "h", "u", "m", "b", "1">>,
                 <<"m", "i", "x", "a", "m", "o", "r", "i", "g", "L", "e", "f", "t", "H", "a", "n", "d", "T", "h", "u", "m", "b", "2">>,
                 <<"m", "i", "x", "a", "m", "o", "r", "i", "g", "L", "e", "f", "t", "H", "a", "n", "d", "T", "h", "u", "m", "b", "3">>,
                 <<"m", "i", "x", "a", "m", "o", "r", "i", "g", "L", "e", "f", "t", "H", "a", "n", "d", "T", "h", "u", "m", "b", "4">>>>,
    fingersThumbR |-> <<<<"m", "i", "x", "a", "m", "o", "r", "i", "g", "R", "i", "g", "h", "t", "H", "a", "n", "d", "T", "h", "u", "m", "b", "1">>,
                 <<"m", "i", "x", "a", "m", "o", "r", "i", "g", "R", "i", "g", "h", "t", "H", "a", "n", "d", "T", "h", "u", "m", "b", "2">>,
                 <<"m", "i", "x", "a", "m", "o", "r", "i", "g", "R", "i", "g", "h", "t", "H", "a", "n", "d", "T", "h", "u", "m", "b", "3">>,
                 <<"m", "i", "x", "a", "m", "o", "r", "i", "g", "R", "i", "g", "h", "t", "H", "a", "n", "d", "T", "h", "u", "m", "b", "4">>>>,
    fingersIndexL |-> <<<<"m", "i", "x", "a", "m", "o", "r", "i", "g", "L", "e", "f", "t", "H", "a", "n", "d", "I", "n", "d", "e", "x", "1">>,
                 <<"m", "i", "x", "a", "m", "o", "r", "i", "g", "L", "e", "f", "t", "H", "a", "n", "d", "I", "n", "d", "e", "x", "2">>,
                 <<"m", "i", "x", "a", "m", "o", "r", "i", "g", "L", "e", "f", "t", "H", "a", "n", "d", "I", "n", "d", "e", "x", "3">>,
                 <<"m", "i", "x", "a", "m", "o", "r", "i", "g", "L", "e", "f", "t", "H", "a", "n", "d", "I", "n", "d", "e", "x", "4">>>>,
    fingersIndexR |-> <<<<"m", "i", "x", "a", "m", "o", "r", "i", "g", "R", "i", "g", "h", "t", "H", "a", "n", "d", "I", "n", "d", "e", "x", "1">>,
                 <<"m", "i", "x", "a", "m", "o", "r", "i", "g", "R", "i", "g", "h", "t", "H", "a", "n", "d", "I", "n", "d", "e", "x", "2">>,
                 <<"m", "i", "x", "a", "m", "o", "r", "i", "g", "R", "i", "g", "h", "t", "H", "a", "n", "d", "I", "n", "d", "e", "x", "3">>,
                 <<"m", "i", "x", "a", "m", "o", "r", "i", "g", "R", "i", "g", "h", "t", "H", "a", "n", "d", "I", "n", "d", "e", "x", "4">>>>,
    fingersMiddleL |-> <<<<"m", "i", "x", "a", "m", "o", "r", "i", "g", "L", "e", "f", "t", "H", "a", "n", "d", "M", "i", "d", "d", "l", "e", "1">>,
                 <<"m", "i", "x", "a", "m", "o", "r", "i", "g", "L", "e", "f", "t", "H", "a", "n", "d", "M", "i", "d", "d", "l", "e", "2">>,
                 <<"m", "i", "x", "a", "m", "o", "r", "i", "g", "L", "e", "f", "t", "H", "a", "n", "d", "M", "i", "d", "d", "l", "e", "3">>,
                 <<"m", "i", "x", "a", "m", "o", "r", "i", "g", "L", "e", "f", "t", "H", "a", "n", "d", "M", "i", "d", "d", "l", "e", "4">>>>,
    fingersMiddleR |-> <<<<"m", "i", "x", "a", "m", "o", "r", "i", "g", "R", "i", "g", "h", "t", "H", "a", "n", "d", "M", "i", "d", "d", "l", "e", "1">>,
                 <<"m", "i", "x", "a", "m", "o", "r", "i", "g", "R", "i", "g", "h", "t", "H", "a", "n", "d", "M", "i", "d", "d", "l", "e", "2">>,
                 <<"m", "i", "x", "a", "m", "o", "r", "i", "g", "R", "i", "g", "h", "t", "H", "a", "n", "d", "M", "i", "d", "d", "l", "e", "3">>,
                 <<"m", "i", "x", "a", "m", "o", "r", "i", "g", "R", "i", "g", "h", "t", "H", "a", "n", "d", "M", "i", "d", "d", "l", "e", "4">>>>,
    fingersRingL |-> <<<<"m", "i", "x", "a", "m", "o", "r", "i", "g", "L", "e", "f", "t", "H", "a", "n", "d", "R", "i", "n", "g", "1">>,
                 <<"m", "i", "x", "a", "m", "o", "r", "i", "g", "L", "e", "f", "t", "H", "a", "n", "d", "R", "i", "n", "g", "2">>,
                 <<"m", "i", "x", "a", "m", "o", "r", "i", "g", "L", "e", "f", "t", "H", "a", "n", "d", "R", "i", "n", "g", "3">>,
                 <<"m", "i", "x", "a", "m", "o", "r", "i", "g", "L", "e", "f", "t", "H", "a", "n", "d", "R", "i", "n", "g", "4">>>>,
    fingersRingR |-> <<<<"m", "i", "x", "a", "m", "o", "r", "i", "g", "R", "i", "g", "h", "t", "H", "a", "n", "d", "R", "i", "n", "g", "1">>,
                 <<"m", "i", "x", "a", "m", "o", "r", "i", "g", "R", "i", "g", "h", "t", "H", "a", "n", "d", "R", "i", "n", "g", "2">>,
                 <<"m", "i", "x", "a", "m", "o", "r", "i", "g", "R", "i", "g", "h", "t", "H", "a", "n", "d", "R", "i", "n", "g", "3">>,
                 <<"m", "i", "x", "a", "m", "o", "r", "i", "g", "R", "i", "g", "h", "t", "H", "a", "n", "d", "R", "i", "n", "g", "4">>>>,
    fingersPinkyL |-> <<<<"m", "i", "x", "a", "m", "o", "r", "i", "g", "L", "e", "f", "t", "H", "a", "n", "d", "P", "i", "n", "k", "y", "1">>,
                 <<"m", "i", "x", "a", "m", "o", "r", "i", "g", "L", "e", "f", "t", "H", "a", "n", "d", "P", "i", "n", "k", "y", "2">>,
                 <<"m", "i", "x", "a", "m", "o", "r", "i", "g", "L", "e", "f", "t", "H", "a", "n", "d", "P", "i", "n", "k", "y", "3">>,
                 <<"m", "i", "x", "a", "m", "o", "r", "i", "g", "L", "e", "f", "t", "H", "a", "n", "d", "P", "i", "n", "k", "y", "4">>>>,
    fingersPinkyR |-> <<<<"m", "i", "x", "a", "m", "o", "r", "i", "g", "R", "i", "g", "h", "t", "H", "a", "n", "d", "P", "i", "n", "k", "y", "1">>,
                 <<"m", "i", "x", "a", "m", "o", "r", "i", "g", "R", "i", "g", "h", "t", "H", "a", "n", "d", "P", "i", "n", "k", "y", "2">>,
                 <<"m", "i", "x", "a", "m", "o", "r", "i", "g", "R", "i", "g", "h", "t", "H", "a", "n", "d", "P", "i", "n", "k", "y", "3">>,
                 <<"m", "i", "x", "a", "m", "o", "r", "i", "g", "R", "i", "g", "h", "t", "H", "a", "n", "d", "P", "i", "n", "k", "y", "4">>>>
  ]

\* the joints of one chain as the source, the Mixamo joints of the same chain
\* as the target
ChainLists ==
  {<<mesh2motion_config[chain], mixamo_config[chain]>> :
     chain \in DOMAIN mesh2motion_config}

\* lists of a Mesh2Motion source and a Mixamo target
MixamoLists ==
  {<<<<<<"D", "E", "F", "-", "h", "i", "p", "s">>, <<"D", "E", "F", "-", "s", "p", "i", "n", "e", "0", "0", "1">>, <<"D", "E", "F", "-", "u", "p", "p", "e", "r", "_", "a", "r", "m", "L">>, <<"D", "E", "F", "-", "h", "a", "n", "d", "L">>, <<"D", "E", "F", "-", "b", "r", "e", "a", "s", "t", "L">>>>,
     <<<<"m", "i", "x", "a", "m", "o", "r", "i", "g", "H", "i", "p", "s">>, <<"m", "i", "x", "a", "m", "o", "r", "i", "g", "S", "p", "i", "n", "e">>, <<"m", "i", "x", "a", "m", "o", "r", "i", "g", "L", "e", "f", "t", "A", "r", "m">>, <<"m", "i", "x", "a", "m", "o", "r", "i", "g", "L", "e", "f", "t", "H", "a", "n", "d">>,
       <<"m", "i", "x", "a", "m", "o", "r", "i", "g", "L", "e", "f", "t", "E", "y", "e">>>>>>,
   <<<<<<"D", "E", "F", "-", "h", "i", "p", "s">>, <<"D", "E", "F", "-", "t", "h", "i", "g", "h", "R">>, <<"D", "E", "F", "-", "t", "h", "u", "m", "b", "0", "1", "L">>>>,
     <<<<"m", "i", "x", "a", "m", "o", "r", "i", "g", "H", "i", "p", "s">>, <<"m", "i", "x", "a", "m", "o", "r", "i", "g", "L", "e", "f", "t", "H", "a", "n", "d", "T", "h", "u", "m", "b", "1">>>>>>,
   <<<<<<"D", "E", "F", "-", "h", "i", "p", "s">>, <<"m", "i", "x", "a", "m", "o", "r", "i", "g", "H", "i", "p", "s">>>>, <<<<"m", "i", "x", "a", "m", "o", "r", "i", "g", "H", "i", "p", "s">>, <<"D", "E", "F", "-", "h", "i", "p", "s">>>>>>}

TargetBoneMappingTypes == {TargetBoneMappingType.Mixamo, TargetBoneMappingType.Custom}

Inputs ==
  {Input(<<n>>, <<n>>, TargetBoneMappingType.Custom) : n \in Names}
    \cup {Input(pr, pr, TargetBoneMappingType.Custom) : pr \in SidePairs}
    \cup {Input(tr, tr, TargetBoneMappingType.Custom) : tr \in SuffixTriples}
    \cup {Input(l[1], l[2], t) : l \in CategoryLists \cup MixamoLists,
                                 t \in TargetBoneMappingTypes}
    \cup {Input(l[1], l[2], TargetBoneMappingType.Mixamo) : l \in ChainLists}

InitMapper ==
  /\ arg \in Inputs
  /\ res = NoResult
  /\ skel = MakeSkeleton(ShapeTree, PalettePlain)
  /\ transforms = << >>
  /\ poses = << >>
  /\ maps = << >>
  /\ last = Call("init", 0, -1, FALSE, FALSE, NewTransform)
  /\ nops = 0

\* the metadata auto_map_bones creates for both skeletons
CreateAllBoneMetadata ==
  /\ res.op = "none"
  /\ res' = [op |-> "metadata",
             source |-> create_all_bone_metadata(
                          extract_source_bone_parent_map(arg.source_armature)),
             target |-> create_all_bone_metadata(
                          extract_target_bone_parent_map(arg.target_skeleton_data))]
  /\ UNCHANGED <<poseVars, arg>>

\* BoneAutoMapper.auto_map_bones(source_armature, target_skeleton_data, type)
AutoMapBones ==
  /\ res.op = "none"
  /\ res' = [op |-> "auto_map_bones",
             mappings |-> auto_map_bones(arg.source_armature,
                                         arg.target_skeleton_data, arg.type)]
  /\ UNCHANGED <<poseVars, arg>>

\* one matcher of BoneCategoryMapper on the bones of its category
MapBones(category) ==
  LET source == Filter(create_all_bone_metadata(
                         extract_source_bone_parent_map(arg.source_armature)),
                       category)
      target == Filter(create_all_bone_metadata(
                         extract_target_bone_parent_map(arg.target_skeleton_data)),
                       category)
  IN /\ res.op = "none"
     /\ res' = [op |-> "map_bones", category |-> category, source |-> source,
                target |-> target,
                mappings |-> MapCategory(category, source, target)]
     /\ UNCHANGED <<poseVars, arg>>

NextMapper ==
  \/ CreateAllBoneMetadata
  \/ AutoMapBones
  \/ \E c \in DOMAIN categories : MapBones(categories[c])

SpecMapper == InitMapper /\ [][NextMapper]_vars

-----------------------------------------------------------------------------
(* Vec3 and Quat operations.  An operation takes the receiver's value      *)
(* (this) where the program's method can read it, and gives the value the  *)
(* receiver has after the call.  A comparison of two numbers is the        *)
(* comparison of the fractions.                                            *)

\* a < b
Less(a, b) == a[1] * b[2] < b[1] * a[2]

\* this.invert() on a Quat
invert(this) ==
  LET a0 == this[1]  a1 == this[2]  a2 == this[3]  a3 == this[4]
      dot == Add(Add(Add(Mul(a0, a0), Mul(a1, a1)), Mul(a2, a2)), Mul(a3, a3))
  IN  IF IsZero(dot)
      THEN Quat(Num(0), Num(0), Num(0), Num(0))
      ELSE LET inverted_dot_product == Div(Num(1), dot)
           IN  Quat(Mul(Neg(a0), inverted_dot_product),
                    Mul(Neg(a1), inverted_dot_product),
                    Mul(Neg(a2), inverted_dot_product),
                    Mul(a3, inverted_dot_product))

\* a plausible slip in Quat.fromInvert: the conjugate returned without the
\* division by the dot product
QuatFromInvertConjugate(this, q) ==
  Quat(Neg(q[1]), Neg(q[2]), Neg(q[3]), q[4])

\* this.fromInvert(q) on a Quat
QuatFromInvert(this, q) ==
  LET a0 == q[1]  a1 == q[2]  a2 == q[3]  a3 == q[4]
      dot == Add(Add(Add(Mul(a0, a0), Mul(a1, a1)), Mul(a2, a2)), Mul(a3, a3))
  IN  IF IsZero(dot)
      THEN Quat(Num(0), Num(0), Num(0), Num(0))
      ELSE LET inverted_dot_product == Div(Num(1), dot)
           IN  Quat(Mul(Neg(a0), inverted_dot_product),
                    Mul(Neg(a1), inverted_dot_product),
                    Mul(Neg(a2), inverted_dot_product),
                    Mul(a3, inverted_dot_product))

\* this.pmul(q) on a Quat: q * this
QuatPmul(this, q) ==
  LET ax == q[1]  ay == q[2]  az == q[3]  aw == q[4]
      bx == this[1]  by == this[2]  bz == this[3]  bw == this[4]
  IN  Quat(Sub(Add(Add(Mul(ax, bw), Mul(aw, bx)), Mul(ay, bz)), Mul(az, by)),
           Sub(Add(Add(Mul(ay, bw), Mul(aw, by)), Mul(az, bx)), Mul(ax, bz)),
           Sub(Add(Add(Mul(az, bw), Mul(aw, bz)), Mul(ax, by)), Mul(ay, bx)),
           Sub(Sub(Sub(Mul(aw, bw), Mul(ax, bx)), Mul(ay, by)), Mul(az, bz)))

\* this.fromMul(a, b) on a Quat: a * b
QuatFromMul(this, a, b) == qMul(a, b)

\* Vec3.dot(a, b)
dot(a, b) == Add(Add(Mul(a[1], b[1]), Mul(a[2], b[2])), Mul(a[3], b[3]))

\* this.fromCross(a, b) and Vec3.cross(a, b, out)
fromCross(this, a, b) ==
  LET ax == a[1]  ay == a[2]  az == a[3]
      bx == b[1]  by == b[2]  bz == b[3]
  IN  Vec3(Sub(Mul(ay, bz), Mul(az, by)),
           Sub(Mul(az, bx), Mul(ax, bz)),
           Sub(Mul(ax, by), Mul(ay, bx)))

\* this.fromAdd(a, b), this.fromScale(v, scalar)
fromAdd(this, a, b) == VAdd(a, b)
fromScale(this, v, scalar) ==
  Vec3(Mul(v[1], scalar), Mul(v[2], scalar), Mul(v[3], scalar))

\* this.fromNorm(v): the receiver is left as it is when v has no length
fromNorm(this, v) ==
  LET mag == Sqrt(LenSqr(v))
  IN  IF IsZero(mag) THEN this
      ELSE LET inv == Div(Num(1), mag)
           IN  Vec3(Mul(v[1], inv), Mul(v[2], inv), Mul(v[3], inv))

\* this.fromPlaneSnap(pnt, planeNorm, planePos); pnt is << >> for null and
\* <<point>> for a point, and this.clone() is the receiver's value
fromPlaneSnap(this, pnt, planeNorm, planePos) ==
  LET p == IF pnt = << >> THEN this ELSE pnt[1]
      d == Add(Add(Mul(Sub(p[1], planePos[1]), planeNorm[1]),
                   Mul(Sub(p[2], planePos[2]), planeNorm[2])),
               Mul(Sub(p[3], planePos[3]), planeNorm[3]))
  IN  Vec3(Sub(p[1], Mul(d, planeNorm[1])),
           Sub(p[2], Mul(d, planeNorm[2])),
           Sub(p[3], Mul(d, planeNorm[3])))

\* this.norm() on a Quat: unchanged when the squared length is 0
QuatNorm(this) ==
  LET len == Add(Add(Add(Mul(this[1], this[1]), Mul(this[2], this[2])),
                     Mul(this[3], this[3])), Mul(this[4], this[4]))
  IN  IF ~Less(Num(0), len) THEN this
      ELSE LET inv == Div(Num(1), Sqrt(len))
           IN  Quat(Mul(this[1], inv), Mul(this[2], inv), Mul(this[3], inv),
                    Mul(this[4], inv))

\* a plausible slip in Quat.fromSwing: no second axis tried when the cross
\* product with the X axis has no length
fromSwingNoFallback(this, a, b) ==
  LET d == dot(a, b)
      tmp == fromCross(Vec3(Num(0), Num(0), Num(0)), Vec3(Num(-1), Num(0), Num(0)), a)
      v == fromCross(Vec3(Num(0), Num(0), Num(0)), a, b)
  IN  IF Less(d, <<-999999, 1000000>>)
      THEN fromAxisAngle(norm(tmp), AnglePi)
      ELSE IF Less(<<999999, 1000000>>, d)
      THEN Quat(Num(0), Num(0), Num(0), Num(1))
      ELSE QuatNorm(Quat(v[1], v[2], v[3], Add(Num(1), d)))

\* this.fromSwing(a, b) on a Quat
fromSwing(this, a, b) ==
  LET d == dot(a, b)
      tmp == fromCross(Vec3(Num(0), Num(0), Num(0)), Vec3(Num(-1), Num(0), Num(0)), a)
      v == fromCross(Vec3(Num(0), Num(0), Num(0)), a, b)
  IN  IF Less(d, <<-999999, 1000000>>)
      THEN fromAxisAngle(
             norm(IF Less(Sqrt(LenSqr(tmp)), <<1, 1000000>>)
                  THEN fromCross(tmp, Vec3(Num(0), Num(1), Num(0)), a)
                  ELSE tmp),
             AnglePi)
      ELSE IF Less(<<999999, 1000000>>, d)
      THEN Quat(Num(0), Num(0), Num(0), Num(1))
      ELSE QuatNorm(Quat(v[1], v[2], v[3], Add(Num(1), d)))

-----------------------------------------------------------------------------
(* The Vec3 / Quat specification: a receiver and the arguments of a call   *)
(* are drawn, and one operation is applied to them.                        *)

\* quaternion arguments: zero, unit and not unit
QuatArgs ==
  { Quat(Num(0), Num(0), Num(0), Num(0)),
    Quat(Num(0), Num(0), Num(0), Num(1)),
    Quat(Num(1), Num(0), Num(0), Num(0)),
    Quat(Half, Neg(Half), Half, Half),
    Quat(Num(0), Num(0), <<3, 5>>, <<4, 5>>),
    Quat(Num(2), Num(0), Num(0), Num(0)),
    Quat(Num(1), Num(2), Num(0), Num(2)) }
QuatReceivers ==
  { Quat(Num(0), Num(0), Num(0), Num(1)),
    Quat(Half, Half, Half, Half),
    Quat(Num(0), Num(2), Num(0), Num(1)) }

\* vectors: unit vectors on the axes and off them, the zero vector, vectors
\* of length 5 and 3
UnitVecs ==
  { Vec3(Num(1), Num(0), Num(0)), Vec3(Num(-1), Num(0), Num(0)),
    Vec3(Num(0), Num(1), Num(0)), Vec3(Num(0), Num(0), Num(1)),
    Vec3(<<3, 5>>, <<4, 5>>, Num(0)), Vec3(Num(0), <<3, 5>>, <<4, 5>>),
    Vec3(<<3, 5>>, Num(0), <<-4, 5>>), Vec3(<<12, 13>>, <<3, 13>>, <<4, 13>>) }
VecArgs ==
  UnitVecs \cup { Vec3(Num(0), Num(0), Num(0)), Vec3(Num(0), Num(3), Num(4)),
                  Vec3(Num(1), Num(2), Num(2)) }
VecReceivers == { Vec3(Num(0), Num(0), Num(0)), Vec3(Num(1), Num(2), Num(3)) }
Negated(v) == Vec3(Neg(v[1]), Neg(v[2]), Neg(v[3]))

\* a call: the Quat receiver this with Quat arguments q and p, the Vec3
\* receiver v with Vec3 arguments a and b and the point pnt (<< >> for null)
MathInput(this, q, p, v, a, b, pnt) ==
  [this |-> this, q |-> q, p |-> p, v |-> v, a |-> a, b |-> b, pnt |-> pnt]
MathInputs ==
  {MathInput(this, q, p, Vec3(Num(0), Num(0), Num(0)), Vec3(Num(0), Num(0), Num(1)),
             Vec3(Num(0), Num(0), Num(1)), << >>) :
     this \in QuatReceivers, q \in QuatArgs, p \in {Quat(Half, Half, Half, Half)}}
    \cup
  {MathInput(Quat(Num(0), Num(0), Num(0), Num(1)), Quat(Half, Half, Half, Half),
             Quat(Num(1), Num(0), Num(0), Num(0)), v, ab[1], ab[2], pnt) :
     v \in VecReceivers,
     ab \in {<<a, a>> : a \in VecArgs} \cup {<<a, Negated(a)>> : a \in VecArgs}
              \cup {<<Vec3(Num(1), Num(0), Num(0)), Vec3(<<7, 25>>, <<24, 25>>, Num(0))>>},
     pnt \in {<< >>, <<Vec3(Num(1), Num(2), Num(3))>>}}

\* the "from" operations applied, and the receiver's value after the call
FromOps ==
  {"Vec3.fromAdd", "Vec3.fromSub", "Vec3.fromScale", "Vec3.fromNorm",
   "Vec3.fromCross", "Vec3.fromQuat", "Vec3.fromPlaneSnap", "Quat.fromMul",
   "Quat.fromInvert", "Quat.fromSwing", "Quat.fromAxisAngle"}
From(op, c) ==
  CASE op = "Vec3.fromAdd" -> fromAdd(c.v, c.a, c.b)
    [] op = "Vec3.fromSub" -> fromSub(c.a, c.b)
    [] op = "Vec3.fromScale" -> fromScale(c.v, c.a, Num(2))
    [] op = "Vec3.fromNorm" -> fromNorm(c.v, c.a)
    [] op = "Vec3.fromCross" -> fromCross(c.v, c.a, c.b)
    [] op = "Vec3.fromQuat" -> fromQuat(c.q, c.a)
    [] op = "Vec3.fromPlaneSnap" -> fromPlaneSnap(c.v, c.pnt, c.b, c.a)
    [] op = "Quat.fromMul" -> QuatFromMul(c.this, c.q, c.p)
    [] op = "Quat.fromInvert" -> QuatFromInvert(c.this, c.q)
    [] op = "Quat.fromSwing" -> fromSwing(c.this, c.a, c.b)
    [] op = "Quat.fromAxisAngle" -> fromAxisAngle(c.a, AnglePi)

\* whether the square roots a call takes are numbers of the model
Rooted(op, c) ==
  LET d == dot(c.a, c.b)
      tmp == fromCross(c.v, Vec3(Num(-1), Num(0), Num(0)), c.a)
      v == fromCross(c.v, c.a, c.b)
  IN  CASE op = "Vec3.fromNorm" -> HasSqrt(LenSqr(c.a))
        [] op = "Quat.fromSwing" /\ Less(d, <<-999999, 1000000>>) ->
             /\ HasSqrt(LenSqr(tmp))
             /\ HasSqrt(LenSqr(fromCross(tmp, Vec3(Num(0), Num(1), Num(0)), c.a)))
        [] op = "Quat.fromSwing" /\ ~Less(d, <<-999999, 1000000>>)
                                /\ ~Less(<<999999, 1000000>>, d) ->
             HasSqrt(Add(LenSqr(v), Mul(Add(Num(1), d), Add(Num(1), d))))
        [] OTHER -> TRUE

InitMath ==
  /\ arg \in MathInputs
  /\ res = NoResult
  /\ skel = MakeSkeleton(ShapeTree, PalettePlain)
  /\ transforms = << >>
  /\ poses = << >>
  /\ maps = << >>
  /\ last = Call("init", 0, -1, FALSE, FALSE, NewTransform)
  /\ nops = 0

\* receiver.fromX(arguments)
CallFrom(op) ==
  /\ res.op = "none"
  /\ Rooted(op, arg)
  /\ res' = [op |-> op, out |-> From(op, arg), q |-> arg.q]
  /\ UNCHANGED <<poseVars, arg>>

\* arg.q.invert(): the receiver is the quaternion inverted
CallInvert ==
  /\ res.op = "none"
  /\ res' = [op |-> "Quat.invert", out |-> invert(arg.q), q |-> invert(arg.q)]
  /\ UNCHANGED <<poseVars, arg>>

\* qInvert(arg.q) of Transform
CallQInvert ==
  /\ res.op = "none"
  /\ res' = [op |-> "qInvert", out |-> qInvert(arg.q), q |-> arg.q]
  /\ UNCHANGED <<poseVars, arg>>

\* receiver.pmulInvert(q) for two Quat objects, and q.pmulInvert(q) for one:
\* out is the receiver and q the argument after the call
CallPmulInvert(same) ==
  /\ res.op = "none"
  /\ res' = [op |-> "Quat.pmulInvert", same |-> same,
             this |-> IF same THEN arg.q ELSE arg.this,
             out |-> pmulInvert(IF same THEN arg.q ELSE arg.this, arg.q),
             q |-> IF same THEN pmulInvert(arg.q, arg.q) ELSE arg.q]
  /\ UNCHANGED <<poseVars, arg>>

NextMath ==
  \/ \E op \in FromOps : CallFrom(op)
  \/ CallInvert
  \/ CallQInvert
  \/ \E same \in BOOLEAN : CallPmulInvert(same)

SpecMath == InitMath /\ [][NextMath]_vars

-----------------------------------------------------------------------------
(* EventListeners: the keyboard shortcuts for undo and redo.  The state is *)
(* the bootstrap's process_step; a keydown event carries its modifier keys *)
(* and its key.                                                            *)

\* the steps EventListeners sets and tests
ProcessStep ==
  [LoadModel |-> "LoadModel", LoadSkeleton |-> "LoadSkeleton",
   EditSkeleton |-> "EditSkeleton", BindPose |-> "BindPose"]

\* a plausible slip in the undo condition: the shift key not looked at
is_undo_shortcut_ignoring_shift(event) ==
  (event.ctrlKey \/ event.metaKey) /\ event.key = "z"

is_undo_shortcut_pressed(event) ==
  (event.ctrlKey \/ event.metaKey) /\ event.key = "z" /\ ~event.shiftKey

is_redo_shortcut_pressed(event) ==
  (event.ctrlKey \/ event.metaKey)
    /\ (event.key = "y" \/ (event.key = "z" /\ event.shiftKey))

\* the keydown listener on the document: whether it called
\* undo_bone_transformation, redo_bone_transformation and preventDefault
keydown(process_step, event) ==
  IF process_step # ProcessStep.EditSkeleton
  THEN [undo |-> FALSE, redo |-> FALSE, preventDefault |-> FALSE]
  ELSE [undo |-> is_undo_shortcut_pressed(event),
        redo |-> is_redo_shortcut_pressed(event),
        preventDefault |-> is_undo_shortcut_pressed(event)
                             \/ is_redo_shortcut_pressed(event)]

\* the keydown events: every combination of the modifiers with the keys of
\* the shortcuts, the upper-case z and another key
KeyboardEvents ==
  [ctrlKey : BOOLEAN, metaKey : BOOLEAN, shiftKey : BOOLEAN,
   key : {"z", "y", "Z", "a"}]
ProcessSteps == {ProcessStep[s] : s \in DOMAIN ProcessStep}

InitKeys ==
  /\ arg \in [process_step : ProcessSteps]
  /\ res = NoResult
  /\ skel = MakeSkeleton(ShapeTree, PalettePlain)
  /\ transforms = << >>
  /\ poses = << >>
  /\ maps = << >>
  /\ last = Call("init", 0, -1, FALSE, FALSE, NewTransform)
  /\ nops = 0

\* a listener sets this.bootstrap.process_step
SetProcessStep(step) ==
  /\ nops < MaxOps
  /\ nops' = nops + 1
  /\ arg' = [process_step |-> step]
  /\ res' = [op |-> "process_step", step |-> step]
  /\ UNCHANGED <<skel, transforms, poses, maps, last>>

\* a keydown event reaches the listener
KeyDown(event) ==
  /\ nops < MaxOps
  /\ nops' = nops + 1
  /\ res' = [op |-> "keydown", event |-> event,
             called |-> keydown(arg.process_step, event)]
  /\ UNCHANGED <<skel, transforms, poses, maps, last, arg>>

NextKeys ==
  \/ \E step \in ProcessSteps : SetProcessStep(step)
  \/ \E event \in KeyboardEvents : KeyDown(event)

SpecKeys == InitKeys /\ [][NextKeys]_vars

-----------------------------------------------------------------------------
(* ModelCleanupUtility.move_model_to_floor.  mesh_data is the list of the  *)
(* objects traverse visits; an object has its type and, for a mesh, the    *)
(* lowest and the highest y of its geometry, which with an identity world  *)
(* matrix are min.y and max.y of new Box3().setFromObject(mesh).           *)

\* an object of the scene graph as the two traversals see it
SceneObject(type, min_y, max_y) == [type |-> type, min_y |-> min_y, max_y |-> max_y]

\* the first traverse: final_lowest_point after the objects from i on
RECURSIVE LowestFrom(_, _, _)
LowestFrom(mesh_data, i, final_lowest_point) ==
  IF i > Len(mesh_data) THEN final_lowest_point
  ELSE LowestFrom(mesh_data, i + 1,
                  IF /\ mesh_data[i].type = "Mesh"
                     /\ mesh_data[i].min_y < final_lowest_point
                  THEN mesh_data[i].min_y
                  ELSE final_lowest_point)

\* ModelCleanupUtility.move_model_to_floor(mesh_data): the objects after it
move_model_to_floor(mesh_data) ==
  LET final_lowest_point == LowestFrom(mesh_data, 1, 0)
      offset == final_lowest_point * (-1)
  IN  [i \in DOMAIN mesh_data |->
         IF mesh_data[i].type = "Mesh"
         THEN SceneObject("Mesh", mesh_data[i].min_y + offset,
                       mesh_data[i].max_y + offset)
         ELSE mesh_data[i]]

\* the objects of a model: meshes below, across, on and above y = 0, and an
\* object that is no mesh
Heights == {-2, -1, 0, 1, 2}
SceneObjects ==
  {SceneObject("Mesh", e[1], e[2]) : e \in {p \in Heights \X Heights : p[1] <= p[2]}}
    \cup {SceneObject("Bone", 0, 0)}
MeshData ==
  {<<a>> : a \in SceneObjects} \cup {<<a, b>> : a \in SceneObjects, b \in SceneObjects}

InitFloor ==
  /\ arg \in MeshData
  /\ res = NoResult
  /\ skel = MakeSkeleton(ShapeTree, PalettePlain)
  /\ transforms = << >>
  /\ poses = << >>
  /\ maps = << >>
  /\ last = Call("init", 0, -1, FALSE, FALSE, NewTransform)
  /\ nops = 0

MoveModelToFloor ==
  /\ res.op = "none"
  /\ res' = [op |-> "move_model_to_floor", mesh_data |-> move_model_to_floor(arg)]
  /\ UNCHANGED <<poseVars, arg>>

NextFloor == MoveModelToFloor

SpecFloor == InitFloor /\ [][NextFloor]_vars

-----------------------------------------------------------------------------
(* Claims *)

\* C1: getWorld(i) returns, for every joint i, the position, rotation and
\* scale that joints[i].world holds after updateWorld()
C1_GetWorldIsCachedWorld ==
  (last.op = "getWorld" /\ ~last.threw /\ last.joint \in Joints(last.pose)) =>
     last.out = updateWorld(poses[last.pose], transforms)
                  .h[poses[last.pose].joints[last.joint].world]

\* C2: fromMul is associative: fromMul(fromMul(A,B),C) = fromMul(A,fromMul(B,C))
\* in position, rotation and scale, for any three transforms
C2_FromMulAssociative == res.op = "fromMul" => res.lhs = res.rhs

\* C3: for T with no zero scale component, fromMul(T, fromInvert(T)) is the
\* identity transform
C3_InvertRoundTrip == res.op = "fromInvert" => res.lhs = Identity

\* the pose a step acted on, the value of each of its transforms, and the
\* parts of a pose that construction fixes
Setters == {"setRot", "setPos", "setScl", "setScalar"}
Mutators == Setters \cup {"reset", "updateWorld", "twist", "axis"}
Local(p, i) == transforms[poses[p].joints[i].local]
World(p, i) == transforms[poses[p].joints[i].world]
Values(p) ==
  [locals |-> [i \in Joints(p) |-> Local(p, i)],
   worlds |-> [i \in Joints(p) |-> World(p, i)],
   rootOffset |-> transforms[poses[p].rootOffset],
   poseOffset |-> transforms[poses[p].poseOffset]]
Structure(p) ==
  [joints |-> [i \in Joints(p) |->
                 [name |-> poses[p].joints[i].name,
                  index |-> poses[p].joints[i].index,
                  pindex |-> poses[p].joints[i].pindex,
                  children |-> poses[p].joints[i].children]],
   nameIdx |-> maps[poses[p].nameIdx]]
Addresses(p) ==
  {poses[p].rootOffset, poses[p].poseOffset}
    \cup {poses[p].joints[i].local : i \in Joints(p)}
    \cup {poses[p].joints[i].world : i \in Joints(p)}

\* C4 as stated: the pose returned by P.clone() has srcPose equal to P, also
\* when P was itself produced by clone()
C4_SrcPoseIsClonedFrom ==
  last.op = "clone" => poses[Len(poses)].srcPose = last.pose

\* C4 amended: the pose returned by P.clone() has srcPose equal to P when P
\* has no srcPose, and equal to P.srcPose when P was itself produced by clone()
C4_SrcPoseIsOrigin ==
  last.op = "clone" =>
     /\ poses[last.pose].srcPose = Null => poses[Len(poses)].srcPose = last.pose
     /\ poses[last.pose].srcPose # Null =>
          poses[Len(poses)].srcPose = poses[last.pose].srcPose

\* a clone of a clone has been made
C4_Witness == last.op = "clone" /\ poses[last.pose].srcPose # Null

\* C5: reset() on a pose with no srcPose changes no transform and no other
\* pose state; on a pose with a srcPose every joints[i].local equals
\* srcPose.joints[i].local afterwards
C5_Reset ==
  [][\A p \in PoseIds :
       (last'.op = "reset" /\ last'.pose = p) =>
         IF poses[p].srcPose = Null
         THEN /\ transforms' = transforms
              /\ poses' = poses
              /\ maps' = maps
              /\ skel' = skel
         ELSE \A i \in Joints(p) :
                Local(p, i)' = Local(poses[p].srcPose, i)']_vars

\* a reset brought mutated local transforms back to those of the srcPose
C5_Witness ==
  last.op = "reset" /\ poses[last.pose].srcPose # Null /\ last.changed

\* C6: a pose and its clone share no transform storage: a mutation of one
\* pose leaves every transform of every other pose unchanged
C6_NoSharedStorage ==
  [][\A p \in PoseIds :
       (last'.op \in Mutators /\ last'.pose = p) =>
         \A q \in PoseIds \ {p} :
           /\ Values(q)' = Values(q)
           /\ Addresses(q) \cap Addresses(p) = {}]_vars

\* a clone was mutated while the pose it was cloned from exists
C6_Witness ==
  last.op \in Setters /\ last.changed /\ poses[last.pose].srcPose # Null

\* the list index of the parent of bone i when that parent is a bone, else -1,
\* and the bones whose parent is bone i, in list order
ParentIndex(i) ==
  IF skel.bones[i].parent.kind = "bone" THEN skel.bones[i].parent.index ELSE -1
RECURSIVE ChildrenFrom(_, _)
ChildrenFrom(i, k) ==
  IF k \notin DOMAIN skel.bones THEN << >>
  ELSE IF ParentIndex(k) = i THEN <<k>> \o ChildrenFrom(i, k + 1)
  ELSE ChildrenFrom(i, k + 1)

\* C7: for a skeleton with unique bone names, whatever the order of its bone
\* list, constructing a Pose succeeds, with joints[i].name = bones[i].name,
\* joints[i].index = i, joints[i].pindex the list index of the parent bone
\* (-1 without one) and i in that parent's children
C7_ConstructAnyOrder ==
  (last.op = "construct" /\ skel.bones[0].parent.kind # "null") =>
     /\ ~last.threw
     /\ \A i \in DOMAIN skel.bones :
          /\ poses[1].joints[i].name = skel.bones[i].name
          /\ poses[1].joints[i].index = i
          /\ poses[1].joints[i].pindex = ParentIndex(i)
          /\ poses[1].joints[i].children = ChildrenFrom(i, 0)

\* every bone's position, quaternion and scale equal the local transform of
\* the joint of pose p at its index
BonesAreLocals(p) ==
  \A i \in DOMAIN skel.bones :
    /\ V3toArray(skel.bones[i].position) = Local(p, i).pos
    /\ QtoArray(skel.bones[i].quaternion) = Local(p, i).rot
    /\ V3toArray(skel.bones[i].scale) = Local(p, i).scl

\* C8: after toSkeleton(skel) bone i's position, quaternion and scale equal
\* joints[i].local for every i, and writing back right after construction
\* leaves every bone unchanged
C8_ToSkeleton ==
  [][\A p \in PoseIds :
       (last'.op = "toSkeleton" /\ last'.pose = p) =>
         /\ BonesAreLocals(p)'
         /\ last.op = "construct" => skel' = skel]_vars

\* a write-back that changed the skeleton
C8_Witness == last.op = "toSkeleton" /\ last.changed

\* C9: the joint order, each joint's name, index, pindex and children, and the
\* name-to-index map of a pose never change once the pose exists
C9_StructureFixed ==
  [][\A p \in PoseIds : Structure(p)' = Structure(p)]_vars

\* a chain operator has rotated a joint of a pose
C9_Witness == last.op \in {"twist", "axis"} /\ last.changed

\* C10: setRot, setPos, setScl and setScalar on joint i change only the
\* addressed component of joints[i].local: every other transform, and the
\* other two components of joints[i].local, stay as they were
C10_SettersFrame ==
  [][\A p \in PoseIds : \A i \in Joints(p) :
       (last'.op \in Setters /\ last'.pose = p /\ last'.joint = i) =>
         LET l == poses[p].joints[i].local
         IN  /\ poses' = poses
             /\ DOMAIN transforms' = DOMAIN transforms
             /\ \A a \in DOMAIN transforms \ {l} : transforms'[a] = transforms[a]
             /\ last'.op # "setRot" => transforms'[l].rot = transforms[l].rot
             /\ last'.op # "setPos" => transforms'[l].pos = transforms[l].pos
             /\ last'.op \notin {"setScl", "setScalar"} =>
                  transforms'[l].scl = transforms[l].scl]_vars

\* a setter changed the local transform of a joint that has a parent
C10_Witness ==
  /\ last.op \in Setters
  /\ last.changed
  /\ poses[last.pose].joints[last.joint].pindex # -1

\* the last step was a call of a chain operator
ChainOps == {"twist", "axis"}
HasChain(call) == call.rig /\ call.joint # -1

\* C11: for either chain operator at a non-zero angle, apply() on a
\* retargeter whose working pose is null returns without throwing and
\* changes nothing
C11_NullPoseNoThrow ==
  (/\ last.op \in ChainOps
   /\ ~last.angle.isZero
   /\ HasChain(last)
   /\ last.pose = Null) => (~last.threw /\ ~last.changed)

\* C12: for either chain operator at a non-zero angle, apply() with a chain
\* name that the target rig's chain table lacks returns without throwing and
\* leaves every joint transform unchanged
C12_AbsentChainNoThrow ==
  (/\ last.op \in ChainOps
   /\ ~last.angle.isZero
   /\ last.rig
   /\ last.chain \notin DOMAIN Rigs[TarRig].chains) =>
     (~last.threw /\ ~last.changed)

\* C13: a chain operator applied with angle 0 returns with every transform
\* and every other part of the pose state as it was, whatever the pose, the
\* rig and the chain name
C13_ZeroAngleNoOp ==
  [][(last'.op \in ChainOps /\ last'.angle.isZero) =>
       /\ ~last'.threw
       /\ transforms' = transforms
       /\ poses' = poses
       /\ maps' = maps
       /\ skel' = skel]_vars

\* an operator was applied at angle 0 to a chain of a pose, after an
\* earlier call
C13_Witness ==
  /\ last.op \in ChainOps
  /\ last.angle.isZero
  /\ HasChain(last)
  /\ last.pose # Null
  /\ nops > 1

\* C14: a chain operator applied at a non-zero angle to a chain of the rig
\* changes nothing but the local rotation of the chain's first joint: that
\* joint's local position and scale, every other local transform, every
\* cached world transform and both offsets stay as they were
C14_OnlyFirstJointRot ==
  [][\A p \in PoseIds :
       (/\ last'.op \in ChainOps
        /\ ~last'.angle.isZero
        /\ HasChain(last')
        /\ last'.pose = p) =>
         \A i \in Joints(p) :
           /\ ~last'.threw
           /\ poses' = poses
           /\ World(p, i)' = World(p, i)
           /\ Local(p, i)'.pos = Local(p, i).pos
           /\ Local(p, i)'.scl = Local(p, i).scl
           /\ i # last'.joint => Local(p, i)' = Local(p, i)
           /\ transforms'[poses[p].rootOffset] = transforms[poses[p].rootOffset]
           /\ transforms'[poses[p].poseOffset] = transforms[poses[p].poseOffset]]_vars

\* the twist operator rotated the first joint of the two-joint spine chain
C14_Witness ==
  /\ last.op = "twist"
  /\ ~last.angle.isZero
  /\ last.joint = 0
  /\ last.changed

\* the metadata of the bones of the source list, and the normalized names of
\* a list of them
Normalized(bones) == [i \in DOMAIN bones |-> bones[i].normalized_name]
Distinct(seq) == \A i, j \in DOMAIN seq : seq[i] = seq[j] => i = j

\* C15: two names that differ in the side token only, classified left and
\* right, get the same normalized name
C15_SidePairsNormalizeEqual ==
  (/\ res.op = "metadata"
   /\ arg.names[1] \in SidePairs
   /\ res.source[1].side = BoneSide.Left
   /\ res.source[2].side = BoneSide.Right) =>
     res.source[1].normalized_name = res.source[2].normalized_name

\* C16: names that differ only in the form of the numeric suffix after the
\* same stem ('01', '001', '_1') get the same normalized name, which ends in
\* the one digit '1'
C16_NumericSuffixCanonical ==
  (res.op = "metadata" /\ arg.names[1] \in SuffixTriples) =>
     /\ res.source[1].normalized_name = res.source[3].normalized_name
     /\ res.source[2].normalized_name = res.source[3].normalized_name
     /\ endsWith(res.source[1].normalized_name, <<"1">>)
     /\ ~endsWith(res.source[1].normalized_name, <<"0", "1">>)

\* whether the lower-cased name has a keyword of the c-th category
HasKeyword(name, c) ==
  \E k \in DOMAIN keywords[categories[c]] :
    includes(toLowerCase(name), keywords[categories[c]][k])

\* C17: the category of a bone is the first of torso, arms, hands, legs,
\* wings, tail that has a keyword which is a substring of the lower-cased
\* name, and unknown when none has
C17_FirstCategoryWins ==
  res.op = "metadata" =>
    \A i \in DOMAIN res.source :
      \/ /\ res.source[i].category = BoneCategory.Unknown
         /\ \A c \in 1..6 : ~HasKeyword(res.source[i].name, c)
      \/ \E c \in 1..6 :
           /\ res.source[i].category = categories[c]
           /\ HasKeyword(res.source[i].name, c)
           /\ \A d \in 1..(c - 1) : ~HasKeyword(res.source[i].name, d)

\* a bone whose name has a keyword of the arms and one of the hands was
\* categorized
C17_Witness ==
  /\ res.op = "metadata"
  /\ \E i \in DOMAIN res.source :
       /\ HasKeyword(res.source[i].name, 2)
       /\ HasKeyword(res.source[i].name, 3)
       /\ res.source[i].category = BoneCategory.Arms

\* the rules of side detection in their order: whether a rule applies to a
\* lower-cased name, and the side it gives
SideRules(n) ==
  <<[applies |-> \/ startsWith(n, <<"l", "e", "f", "t">>) \/ endsWith(n, <<"l", "e", "f", "t">>)
                 \/ startsWith(n, <<"l", "_">>) \/ endsWith(n, <<"_", "l">>),
     side |-> BoneSide.Left],
    [applies |-> \/ startsWith(n, <<"r", "i", "g", "h", "t">>) \/ endsWith(n, <<"r", "i", "g", "h", "t">>)
                 \/ startsWith(n, <<"r", "_">>) \/ endsWith(n, <<"_", "r">>),
     side |-> BoneSide.Right],
    [applies |-> includes(n, <<"l", "e", "f", "t">>), side |-> BoneSide.Left],
    [applies |-> includes(n, <<"r", "i", "g", "h", "t">>), side |-> BoneSide.Right],
    [applies |-> endsWith(n, <<"l">>), side |-> BoneSide.Left],
    [applies |-> endsWith(n, <<"r">>), side |-> BoneSide.Right]>>
FirstRuleGives(rules, side) ==
  \/ side = BoneSide.Unknown /\ \A k \in DOMAIN rules : ~rules[k].applies
  \/ \E k \in DOMAIN rules :
       /\ rules[k].applies
       /\ rules[k].side = side
       /\ \A j \in 1..(k - 1) : ~rules[j].applies

\* C18: a torso bone is center; any other bone has the side of the first
\* rule that applies, in the order anchored left, anchored right, substring
\* left, substring right, last character l or r, and unknown when none does
C18_FirstSideRuleWins ==
  res.op = "metadata" =>
    \A i \in DOMAIN res.source :
      IF res.source[i].category = BoneCategory.Torso
      THEN res.source[i].side = BoneSide.Center
      ELSE FirstRuleGives(SideRules(toLowerCase(res.source[i].name)),
                          res.source[i].side)

\* a bone outside the torso to which a substring rule and the last-character
\* rule apply with different sides got its side
C18_Witness ==
  /\ res.op = "metadata"
  /\ \E i \in DOMAIN res.source :
       /\ res.source[i].category # BoneCategory.Torso
       /\ ~SideRules(toLowerCase(res.source[i].name))[1].applies
       /\ ~SideRules(toLowerCase(res.source[i].name))[2].applies
       /\ SideRules(toLowerCase(res.source[i].name))[3].applies
       /\ SideRules(toLowerCase(res.source[i].name))[6].applies
       /\ res.source[i].side = BoneSide.Left

\* the pairs of a target and a source bone with the same normalized name
MatchedPairs(source_bones, target_bones) ==
  {<<target_bones[k].name, source_bones[i].name>> :
     <<i, k>> \in {ik \in (DOMAIN source_bones) \X (DOMAIN target_bones) :
                     source_bones[ik[1]].normalized_name
                       = target_bones[ik[2]].normalized_name}}

NameSet(names) == {names[i] : i \in DOMAIN names}

\* C20: for a target handled as a Mixamo rig auto_map_bones returns the
\* entries target name -> source name for which BONE_MAP maps the name of a
\* source bone to the name of a bone of the target, and nothing else
C20_MixamoDirectMapping ==
  (res.op = "auto_map_bones" /\ arg.type = TargetBoneMappingType.Mixamo) =>
     /\ Entries(res.mappings) =
          {<<BONE_MAP[k][2], BONE_MAP[k][1]>> :
             k \in {r \in DOMAIN BONE_MAP :
                      /\ BONE_MAP[r][1] \in NameSet(arg.names[1])
                      /\ BONE_MAP[r][2] \in NameSet(arg.names[2])}}
     /\ Distinct([i \in DOMAIN res.mappings |-> res.mappings[i][1]])

\* a Mixamo target got entries for some of the source bones and none for
\* another
C20_Witness ==
  /\ res.op = "auto_map_bones"
  /\ arg.type = TargetBoneMappingType.Mixamo
  /\ Len(res.mappings) >= 2
  /\ Len(res.mappings) < Len(arg.names[1])

\* the inverse the claims speak of: the zero quaternion for the zero
\* quaternion, else the conjugate over the squared magnitude
ZeroQuat == Quat(Num(0), Num(0), Num(0), Num(0))
ConjugateOverSquare(q) ==
  LET n == Add(Add(Add(Mul(q[1], q[1]), Mul(q[2], q[2])), Mul(q[3], q[3])),
               Mul(q[4], q[4]))
  IN  IF q = ZeroQuat THEN ZeroQuat
      ELSE Quat(Div(Neg(q[1]), n), Div(Neg(q[2]), n), Div(Neg(q[3]), n), Div(q[4], n))

\* C21: Quat.invert, Quat.fromInvert, qInvert and the inversion inside
\* Quat.pmulInvert give the zero quaternion for the zero quaternion and the
\* conjugate over the squared magnitude for any other q, and q times that
\* inverse is the identity quaternion
C21_InverseOfZeroAndNonZero ==
  /\ res.op \in {"Quat.invert", "Quat.fromInvert", "qInvert"} =>
       /\ res.out = ConjugateOverSquare(arg.q)
       /\ arg.q = ZeroQuat => res.out = ZeroQuat
       /\ arg.q # ZeroQuat => qMul(arg.q, res.out) = Quat(Num(0), Num(0), Num(0), Num(1))
  /\ res.op = "Quat.pmulInvert" =>
       res.out = qMul(ConjugateOverSquare(arg.q), res.this)

\* the zero quaternion was inverted in place
C21_Witness ==
  /\ res.op = "Quat.invert"
  /\ arg.q = ZeroQuat
  /\ res.out = ZeroQuat

\* the squared length of a quaternion and its vector part
QuatLenSqr(q) ==
  Add(Add(Add(Mul(q[1], q[1]), Mul(q[2], q[2])), Mul(q[3], q[3])), Mul(q[4], q[4]))
Axis(q) == Vec3(q[1], q[2], q[3])

\* C22: for a unit vector a, fromSwing(a, -a) gives a quaternion of length 1
\* whose axis is not zero and is perpendicular to a
C22_OppositeSwingIsHalfTurn ==
  (/\ res.op = "Quat.fromSwing"
   /\ arg.a \in UnitVecs
   /\ arg.b = Negated(arg.a)) =>
     /\ QuatLenSqr(res.out) = Num(1)
     /\ Axis(res.out) # Vec3(Num(0), Num(0), Num(0))
     /\ dot(Axis(res.out), arg.a) = Num(0)

\* the swing from the X axis to its opposite took the fallback axis
C22_Witness ==
  /\ res.op = "Quat.fromSwing"
  /\ arg.a = Vec3(Num(1), Num(0), Num(0))
  /\ arg.b = Vec3(Num(-1), Num(0), Num(0))
  /\ res.out = Quat(Num(0), Num(0), Num(-1), Num(0))

\* C23: after a from* call the receiver's value does not depend on the value
\* it had before the call, whatever the arguments
C23_FromIgnoresReceiver ==
  res.op \in FromOps =>
    \A v \in VecReceivers, this \in QuatReceivers :
      From(res.op, [arg EXCEPT !.v = v, !.this = this]) = res.out

\* C25: r.pmulInvert(q) leaves r = inverse(q) * r, the value pre-multiplying
\* r by fromInvert(q) gives (the zero quaternion standing for the inverse of
\* the zero quaternion), and leaves another quaternion q as it was
C25_PmulInvertIsInverseTimesReceiver ==
  res.op = "Quat.pmulInvert" =>
    /\ res.out = QuatPmul(res.this, QuatFromInvert(res.this, arg.q))
    /\ res.out = qMul(ConjugateOverSquare(arg.q), res.this)
    /\ ~res.same => res.q = arg.q

\* a receiver and an argument that do not commute, the argument not unit
C25_Witness ==
  /\ res.op = "Quat.pmulInvert"
  /\ ~res.same
  /\ arg.q = Quat(Num(1), Num(2), Num(0), Num(2))
  /\ res.this = Quat(Half, Half, Half, Half)
  /\ res.out # qMul(res.this, ConjugateOverSquare(arg.q))

\* a pose with unit rotations: every local rotation and both offsets
UnitRotations(p) ==
  /\ \A i \in Joints(p) : QuatLenSqr(Local(p, i).rot) = Num(1)
  /\ QuatLenSqr(transforms[poses[p].rootOffset].rot) = Num(1)
  /\ QuatLenSqr(transforms[poses[p].poseOffset].rot) = Num(1)

\* the rotation by the operator's angle about the axis it computes, for a
\* call on chain ch of pose p: the normalised span of the chain for the twist
\* operator, the joint's world-space 'y' direction for the axis operator
Delta(call, p, ch, ctran) ==
  fromAxisAngle(IF call.op = "twist"
                THEN norm(TwistAxis(poses[p], transforms, ch, ctran))
                ELSE fromQuat(ctran.rot, ch[1].twist),
                call.angle)

C26_TwistKeepsUnitRotation ==
  [][\A p \in PoseIds :
       (/\ last'.op = "twist"
        /\ ~last'.angle.isZero
        /\ HasChain(last')
        /\ last'.pose = p
        /\ UnitRotations(p)) =>
         \A i \in Joints(p) :
           i = last'.joint => QuatLenSqr(Local(p, i)'.rot) = Num(1)]_vars

\* C27: getWorld(i) for an index that is neither -1 nor the index of a joint
\* returns the out transform as it was given, without throwing
C27_GetWorldMissingJointNoThrow ==
  (/\ last.op = "getWorld"
   /\ last.joint # -1
   /\ last.joint \notin Joints(last.pose)) =>
     /\ ~last.threw
     /\ last.out = NewTransform

\* C28: every joint name of mesh2motion_config is a key of BONE_MAP, and
\* BONE_MAP gives it the name at the same chain and position of
\* mixamo_config; so mapping a chain of the one rig onto the same chain of
\* the other pairs the joints position by position
C28_ChainJointsInBoneMap ==
  \A chain \in DOMAIN mesh2motion_config :
    (/\ res.op = "auto_map_bones"
     /\ arg.type = TargetBoneMappingType.Mixamo
     /\ arg.names = <<mesh2motion_config[chain], mixamo_config[chain]>>) =>
       \A i \in DOMAIN mesh2motion_config[chain] :
         /\ \E r \in DOMAIN BONE_MAP :
              /\ BONE_MAP[r][1] = mesh2motion_config[chain][i]
              /\ BONE_MAP[r][2] = mixamo_config[chain][i]
         /\ <<mixamo_config[chain][i], mesh2motion_config[chain][i]>>
              \in Entries(res.mappings)

\* C29: the keydown listener calls undo_bone_transformation or
\* redo_bone_transformation only while process_step is EditSkeleton, and one
\* keydown never calls both
C29_UndoRedoOnlyInEditSkeleton ==
  res.op = "keydown" =>
    /\ (res.called.undo \/ res.called.redo) =>
         arg.process_step = ProcessStep.EditSkeleton
    /\ ~(res.called.undo /\ res.called.redo)
    /\ (arg.process_step = ProcessStep.EditSkeleton
          /\ (res.event.ctrlKey \/ res.event.metaKey)
          /\ res.event.key = "z") => (res.called.undo \/ res.called.redo)

\* Ctrl+Shift+z in the EditSkeleton step called redo and not undo
C29_Witness ==
  /\ res.op = "keydown"
  /\ arg.process_step = ProcessStep.EditSkeleton
  /\ res.event.ctrlKey /\ res.event.shiftKey /\ res.event.key = "z"
  /\ res.called.redo
  /\ ~res.called.undo

\* the meshes of a list of objects, and the lowest min.y of their boxes
Meshes(mesh_data) == {i \in DOMAIN mesh_data : mesh_data[i].type = "Mesh"}
LowestMinY(mesh_data) ==
  CHOOSE y \in {mesh_data[i].min_y : i \in Meshes(mesh_data)} :
    \A i \in Meshes(mesh_data) : y <= mesh_data[i].min_y

\* C30: after move_model_to_floor the lowest min.y over the meshes is 0,
\* wherever the model started, and every mesh moved by the same vertical
\* offset
C30_LowestPointOnFloor ==
  (res.op = "move_model_to_floor" /\ Meshes(arg) # {}) =>
     /\ LowestMinY(res.mesh_data) = 0
     /\ \A i, j \in Meshes(arg) :
          /\ res.mesh_data[i].min_y - arg[i].min_y
               = res.mesh_data[j].min_y - arg[j].min_y
          /\ res.mesh_data[i].max_y - arg[i].max_y
               = res.mesh_data[i].min_y - arg[i].min_y

====
